---------------------------- MODULE Spec2Model ----------------------------
(***************************************************************************)
(* The concurrency core of the voice pipeline (components/python/src):     *)
(*   - the agent stage       main.py  _agent_stream                        *)
(*   - the fan-in merge      utils.merge_async_iters (used by _tts_stream) *)
(*   - the synthesis stage   main.py  _tts_stream over HumeTTS             *)
(* Each part has its own specification over its own variables; the other   *)
(* parts' variables stay at their initial values.                          *)
(*                                                                         *)
(* main.py imports three things whose code is not among the sources:       *)
(* utils.merge_async_iters, modelled from its description; the event       *)
(* classes ToolCallEvent, ToolResultEvent and AgentEndEvent, which         *)
(* events.py does not define, modelled as plain records from the way       *)
(* main.py constructs them; and CartesiaTTS, in whose place stands         *)
(* HumeTTS (hume_tts.py), the TTS client with the same three operations    *)
(* send_text, receive_events and close.                                    *)
(***************************************************************************)
EXTENDS Integers, Sequences, FiniteSets

VARIABLES
    agent,          \* main.py:80 the global agent: "none" until startup_event
    thread_id,      \* main.py:168 the conversation's session key
    agIn,           \* the upstream event stream handed to _agent_stream
    agPos,          \* how many upstream events the stage has read
    agPc,           \* where the generator body stands
    agOut,          \* the events the stage has yielded, in order
    agCalls,        \* agent.astream calls made: the event that caused each, and its key
    agInflight,     \* the astream calls whose stream is not finished yet
    agIssued,       \* tool-call ids the agent collaborator issued in the current stream
    agMsgs,         \* how many messages the collaborator has streamed in this run
    agCompleted,    \* the astream calls whose stream ran to its end
    mProd,          \* merge: each producer task: running, done, failed or cancelled
    mQueue,         \* merge: items handed over by producers and not yet yielded
    mOut,           \* merge: the items yielded to the consumer, in order
    mState,         \* merge: running, closing, failing, or returned: ended, failed, cancelled
    mErr,           \* merge: the producer whose error was raised to the consumer
    gSrc,           \* generic producers: the sequence each one yields
    gPos,           \* generic producers: how many items each has handed over
    gFail,          \* generic producers: whether each raises after its last item
    tIn,            \* the upstream event stream handed to _tts_stream
    tPos,           \* how many upstream events process_upstream has read
    uPc,            \* process_upstream: read, put (at its yield), after, done
    buffer,         \* main.py:255 the agent texts buffered for the turn
    tCalls,         \* the texts tts.send_text was called with, in order
    tSent,          \* the texts sent to the TTS vendor, in order
    conns,          \* HumeTTS: every WebSocket opened so far: open or closed
    ws,             \* HumeTTS._ws: an index into conns, 0 for None
    hnd,            \* HumeTTS: the _message_handler task of each WebSocket
    hTask,          \* HumeTTS._message_handler_task: an index into hnd, 0 for None
    connSignal,     \* HumeTTS._connection_signal
    closeSignal,    \* HumeTTS._close_signal
    msgQ,           \* HumeTTS._message_queue: tts_chunk events and None markers
    rPc,            \* receive_events: idle (not started), wait, read (at the loop
                    \* test), get (waiting for a message), put (at its yield), done
    rMsg,           \* receive_events: the message it is about to yield
    vChunks,        \* how many audio chunks the vendor has sent
    vFaults,        \* how many times the vendor reported an error or hung up
    dPc,            \* a direct user of HumeTTS: open, closing (inside close()), closed
    dSends,         \* a direct user of HumeTTS: how many send_text calls it has made
    hOut,           \* a direct user of HumeTTS: the events receive_events gave it
    dCalls,         \* a direct user of HumeTTS: its send_text calls and how each ended
    dConnecting,    \* a direct user of HumeTTS: the texts of its send_text calls that
                    \* are inside websockets.connect
    stage,          \* which transcription stage runs: "web" is main.py _stt_stream,
                    \* "pipeline" is _voice_agent.py VoicePipeline.buffer | transcribe
    aIn,            \* the audio stream handed to the transcription stage
    aPos,           \* how many audio chunks the sender task has read
    sPc,            \* the sender task: next, ready (waits for the session to begin),
                    \* cancelling (cancel requested), done, failed (ended by an
                    \* exception), cancelled
    sttConns,       \* the STT client: every WebSocket opened so far: open or closed
    sttWs,          \* the STT client's self.ws: an index into sttConns, 0 for None
    sttReady,       \* the STT client's _connection_ready
    sttLog,         \* the operations made on the STT client and its WebSocket, in order
    current_audio,  \* _voice_agent.py:200 the audio buffered for the turn
    vLog,           \* the vendor messages the receiving loop has read, in order
    vDrops,         \* how many times the vendor closed a WebSocket
    xPc,            \* the stage's generator: wait (for a connection), recv, yield,
                    \* finally, await (the sender task), close, done, error
    xConn,          \* the WebSocket the receiving loop iterates
    xEv,            \* the event the stage is about to yield
    xOut,           \* the events the stage has yielded, in order
    xErr,           \* the exception the stage raised to its consumer, "" for none
    xStop,          \* how the consumer stopped the stage: "" (it did not), closed
                    \* (at the stage's yield) or cancelled (while the stage waited)
    runPc,          \* VoicePipeline.run of voice_agent.py: loop, transcribe, agent, tts,
                    \* output, handler (in its except clause), stopped
    turn_number,    \* voice_agent.py:115 the driver's turn counter
    runLog,         \* the stage calls the driver's cycles made, with their outcomes, in order
    runErr,         \* the exception VoicePipeline.run ended with, "" for none
    coState,        \* TurnCoordinator: Listening, Responding, Interrupted or Completed
    capTask,        \* TurnCoordinator: the capture-and-transcribe task: idle, running or done
    capText,        \* TurnCoordinator: the transcript the finished capture task gave
    playTask,       \* TurnCoordinator: the playback task: idle, running, done or stopped
    stopSignal,     \* TurnCoordinator: the signal that tells playback to stop early
    pending,        \* TurnCoordinator: the transcript carried to the next Listening, <<>> for none
    coLog,          \* TurnCoordinator: what the coordinator and its tasks did, in order
    fn,             \* which one-shot function runs: transcribe_stream or microphone_and_transcribe_once
    oPc,            \* where the function's body stands
    oAudio,         \* the audio the function is given, or the microphone delivers
    oPos,           \* how many audio chunks have been taken
    oConns,         \* the function's STT client: every WebSocket opened so far: open or closed
    oWs,            \* the client's self.ws: an index into oConns, 0 for None
    oReady,         \* the client's _connection_ready
    oRead,          \* the vendor messages receive_messages has read, in order
    rcvPc,          \* the receive_messages generator: running, left (suspended at its yield), done, cancelled
    transcripts,    \* the final transcripts gathered from receive_messages
    sendPc,         \* capture_and_send: running, ready (waits for the session to begin), done
    stop_event,     \* assemblyai_stt.py:285 tells capture_and_send to stop
    captured_chunks,\* assemblyai_stt.py:291 the audio captured for the turn
    oLog,           \* what was sent to the vendor, in order
    oOut,           \* what the function has yielded or returned
    oErr            \* the exception the function raised, "" for none

agentVars == <<agent, thread_id, agIn, agPos, agPc, agOut, agCalls, agInflight,
               agIssued, agMsgs, agCompleted>>

mergeVars == <<mProd, mQueue, mOut, mState, mErr>>

genVars == <<gSrc, gPos, gFail>>

upstreamVars == <<tIn, tPos, uPc, buffer, tCalls>>

humeVars == <<tSent, conns, ws, hnd, hTask, connSignal, closeSignal, msgQ, rPc, rMsg,
              vChunks, vFaults>>

ttsVars == <<upstreamVars, humeVars>>

driverVars == <<dPc, dSends, hOut, dCalls, dConnecting>>

sttVars == <<stage, aIn, aPos, sPc, sttConns, sttWs, sttReady, sttLog, current_audio,
             vLog, vDrops, xPc, xConn, xEv, xOut, xErr, xStop>>

runVars == <<runPc, turn_number, runLog, runErr>>

turnVars == <<coState, capTask, capText, playTask, stopSignal, pending, coLog>>

onceVars == <<fn, oPc, oAudio, oPos, oConns, oWs, oReady, oRead, rcvPc, transcripts, sendPc, stop_event, captured_chunks, oLog, oOut, oErr>>

vars == <<agentVars, mergeVars, genVars, ttsVars, driverVars, sttVars, runVars, turnVars, onceVars>>

\* what the agent stage leaves alone
notAgent == <<mergeVars, genVars, ttsVars, driverVars, sttVars, runVars, turnVars, onceVars>>

\* what a run of the generic merge leaves alone
notMerge == <<agentVars, ttsVars, driverVars, sttVars, runVars, turnVars, onceVars>>

\* what the synthesis stage leaves alone
notTts == <<agentVars, genVars, driverVars, sttVars, runVars, turnVars, onceVars>>

\* what a direct use of HumeTTS leaves alone
notHume == <<agentVars, mergeVars, genVars, upstreamVars, sttVars, runVars, turnVars, onceVars>>

\* what the transcription stage leaves alone
notStt == <<agentVars, mergeVars, genVars, ttsVars, driverVars, runVars, turnVars, onceVars>>

\* what the standalone driver leaves alone
notRun == <<agentVars, mergeVars, genVars, ttsVars, driverVars, sttVars, turnVars, onceVars>>

\* what the turn coordinator leaves alone
notTurn == <<agentVars, mergeVars, genVars, ttsVars, driverVars, sttVars, runVars, onceVars>>

\* everything but the one-shot transcription functions
notOnce == <<agentVars, mergeVars, genVars, ttsVars, driverVars, sttVars, runVars, turnVars>>

-----------------------------------------------------------------------------
(* Bounds of the model.                                                     *)

\* longest upstream event sequence fed to the agent stage
MaxIn == 2
\* most messages the agent collaborator streams during one run of the stage
MaxMsgs == 3
\* how many producers the generic merge is run with
NProd == 2
\* how many items the generic producers yield between them
MaxItems == 3
\* how many items the merge holds for a consumer that is behind
QueueCap == 2
\* longest upstream event sequence fed to the synthesis stage
MaxTtsIn == 3
\* most audio chunks the TTS vendor sends during one run of the stage
MaxChunks == 2
\* most vendor errors and vendor-side closes during one run of the stage
MaxFaults == 1

-----------------------------------------------------------------------------
(* Sequences.                                                               *)

SeqsUpTo(S, n) == UNION {[1..k -> S] : k \in 0..n}

IsPrefix(s, t) == Len(s) <= Len(t) /\ SubSeq(t, 1, Len(s)) = s

RECURSIVE Count(_, _)
\* how many elements of s are in the set T
Count(T, s) == IF s = <<>> THEN 0
               ELSE (IF Head(s) \in T THEN 1 ELSE 0) + Count(T, Tail(s))

-----------------------------------------------------------------------------
(* events.py: the tagged events. ts (the creation time) is not modelled.    *)

Ev(t, x, i) == [type |-> t, text |-> x, id |-> i]

UserInputEvent(a)   == Ev("user_input", a, "")
STTChunkEvent(t)    == Ev("stt_chunk", t, "")
STTOutputEvent(t)   == Ev("stt_output", t, "")
AgentChunkEvent(t)  == Ev("agent_chunk", t, "")
ToolCallEvent(i)    == Ev("tool_call", <<>>, i)
ToolResultEvent(i)  == Ev("tool_result", <<>>, i)
AgentEndEvent       == Ev("agent_end", <<>>, "")
TTSChunkEvent(a)    == Ev("tts_chunk", a, "")

\* the kinds of event the agent stage itself constructs
AgentKinds == {"agent_chunk", "tool_call", "tool_result", "agent_end"}

TypesOf(s) == [k \in 1..Len(s) |-> s[k].type]

-----------------------------------------------------------------------------
(* The agent collaborator's stream (agent.astream, stream_mode="messages"). *)

\* the ids the collaborator gives its tool calls
ToolIds == {"t1"}
\* a tool call whose dict has no "id" key
NoId == "missing"
\* what str(uuid4()) returns at main.py:199: an id no ToolMessage refers to
FreshId == "uuid4"

\* a text is a sequence of characters, so that texts can be joined and stripped
NoText == <<>>
Hi == <<"h", "i">>
Ok == <<"o", "k">>

Texts == {NoText, Ok}

AIMessage(t, tcs) == [kind |-> "ai", text |-> t, tool_calls |-> tcs, tool_call_id |-> ""]

\* the AI message chunks the collaborator may stream: text only (empty or
\* not), or text with one tool call that carries its id or lacks one
AIMessages == {AIMessage(t, <<>>) : t \in Texts}
              \cup {AIMessage(Ok, <<i>>) : i \in ToolIds \cup {NoId}}
OtherMessage == [kind |-> "other", text |-> NoText, tool_calls |-> <<>>, tool_call_id |-> ""]
ToolMessage(i) == [kind |-> "tool", text |-> NoText, tool_calls |-> <<>>, tool_call_id |-> i]

\* the ids of m's tool calls that a later ToolMessage can refer to
IssuedBy(m) == {m.tool_calls[k] : k \in 1..Len(m.tool_calls)} \ {NoId}

\* what the collaborator may stream next: a ToolMessage answers a tool call
\* that an earlier AIMessage of the same stream made
NextMessages == AIMessages \cup {OtherMessage} \cup {ToolMessage(i) : i \in agIssued}

-----------------------------------------------------------------------------
(* main.py _agent_stream                                                    *)

ThreadIds == {"k1", "k2"}

\* the upstream events: what the STT stage (or any upstream) may send
AgentInputs == {STTChunkEvent(<<"h">>), STTOutputEvent(Hi), UserInputEvent(<<"p">>)}

\* a variant of Triggers that also lets a partial transcript start an invocation
TriggersOnAnyTranscript(event) == event.type \in {"stt_output", "stt_chunk"}

\* main.py:176 the test that decides whether an event starts an invocation
Triggers(event) == event.type = "stt_output"

\* a variant of CallId that always makes up a new id
CallIdAlwaysFresh(tc) == FreshId

\* main.py:198-202 tool_call.get("id", str(uuid4()))
CallId(tc) == IF tc = NoId THEN FreshId ELSE tc

\* main.py:197-202 one tool_call event per tool call of the message, in order
ToolCallEvents(m) == [k \in 1..Len(m.tool_calls) |-> ToolCallEvent(CallId(m.tool_calls[k]))]

\* main.py:206-210 the tool_result event of a ToolMessage
ResultEventOf(m) == ToolResultEvent(m.tool_call_id)

\* main.py:190-210 the events the stage yields for one streamed message
EventsFor(m) ==
    (IF m.kind = "ai" THEN <<AgentChunkEvent(m.text)>> \o ToolCallEvents(m) ELSE <<>>)
    \o (IF m.kind = "tool" THEN <<ResultEventOf(m)>> ELSE <<>>)

\* the agent stage before it is started
AgentIdle ==
    /\ agent = "none"
    /\ thread_id = "k1"
    /\ agIn = <<>>
    /\ agPos = 0
    /\ agPc = "next"
    /\ agOut = <<>>
    /\ agCalls = <<>>
    /\ agInflight = {}
    /\ agIssued = {}
    /\ agMsgs = 0
    /\ agCompleted = {}

\* no merge in progress
MergeIdle ==
    /\ mProd = <<>>
    /\ mQueue = <<>>
    /\ mOut = <<>>
    /\ mState = "running"
    /\ mErr = 0
    /\ gSrc = <<>>
    /\ gPos = <<>>
    /\ gFail = <<>>

\* the synthesis stage before it is started: a new HumeTTS (hume_tts.py:57-61)
TtsIdle ==
    /\ tIn = <<>>
    /\ tPos = 0
    /\ uPc = "read"
    /\ buffer = <<>>
    /\ tCalls = <<>>
    /\ tSent = <<>>
    /\ conns = <<>>
    /\ ws = 0
    /\ hnd = <<>>
    /\ hTask = 0
    /\ connSignal = FALSE
    /\ closeSignal = FALSE
    /\ msgQ = <<>>
    /\ rPc = "wait"
    /\ rMsg = <<>>
    /\ vChunks = 0
    /\ vFaults = 0

\* HumeTTS is not used directly
DriverIdle ==
    /\ dPc = "open"
    /\ dSends = 0
    /\ hOut = <<>>
    /\ dCalls = <<>>
    /\ dConnecting = <<>>

\* no transcription stage runs
SttIdle ==
    /\ stage = "web"
    /\ aIn = <<>>
    /\ aPos = 0
    /\ sPc = "next"
    /\ sttConns = <<>>
    /\ sttWs = 0
    /\ sttReady = FALSE
    /\ sttLog = <<>>
    /\ current_audio = <<>>
    /\ vLog = <<>>
    /\ vDrops = 0
    /\ xPc = "wait"
    /\ xConn = 0
    /\ xEv = <<>>
    /\ xOut = <<>>
    /\ xErr = ""
    /\ xStop = ""

\* the standalone driver has not started a cycle
RunIdle ==
    /\ runPc = "loop"
    /\ turn_number = 0
    /\ runLog = <<>>
    /\ runErr = ""

\* the turn coordinator has not started
TurnIdle ==
    /\ coState = "Listening"
    /\ capTask = "idle"
    /\ capText = <<>>
    /\ playTask = "idle"
    /\ stopSignal = FALSE
    /\ pending = <<>>
    /\ coLog = <<>>

\* no one-shot transcription function runs
OnceIdle ==
    /\ fn = ""
    /\ oPc = "idle"
    /\ oAudio = <<>>
    /\ oPos = 0
    /\ oConns = <<>>
    /\ oWs = 0
    /\ oReady = FALSE
    /\ oRead = <<>>
    /\ rcvPc = "idle"
    /\ transcripts = <<>>
    /\ sendPc = "idle"
    /\ stop_event = FALSE
    /\ captured_chunks = <<>>
    /\ oLog = <<>>
    /\ oOut = <<>>
    /\ oErr = ""

AgentInit ==
    /\ MergeIdle
    /\ TtsIdle
    /\ DriverIdle
    /\ SttIdle
    /\ OnceIdle
    /\ TurnIdle
    /\ RunIdle
    /\ agent = "none"
    /\ thread_id \in ThreadIds
    /\ agIn \in SeqsUpTo(AgentInputs, MaxIn)
    /\ agPos = 0
    /\ agPc = "next"
    /\ agOut = <<>>
    /\ agCalls = <<>>
    /\ agInflight = {}
    /\ agIssued = {}
    /\ agMsgs = 0
    /\ agCompleted = {}

\* main.py:308-324 startup_event builds the agent
Startup ==
    /\ agent = "none"
    /\ agent' = "ready"
    /\ UNCHANGED <<thread_id, agIn, agPos, agPc, agOut, agCalls, agInflight, agIssued, agMsgs, agCompleted>>
    /\ UNCHANGED notAgent

\* a variant of AgentPass that re-emits final transcripts only
AgentPassFinalsOnly ==
    /\ agPc = "next"
    /\ agPos < Len(agIn)
    /\ agPos' = agPos + 1
    /\ agOut' = IF agIn[agPos + 1].type = "stt_output"
                THEN Append(agOut, agIn[agPos + 1]) ELSE agOut
    /\ agPc' = "passed"
    /\ UNCHANGED <<agent, thread_id, agIn, agCalls, agInflight, agIssued, agMsgs, agCompleted>>
    /\ UNCHANGED notAgent

\* main.py:171-173 read the next upstream event and yield it unchanged
AgentPass ==
    /\ agPc = "next"
    /\ agPos < Len(agIn)
    /\ agPos' = agPos + 1
    /\ agOut' = Append(agOut, agIn[agPos + 1])
    /\ agPc' = "passed"
    /\ UNCHANGED <<agent, thread_id, agIn, agCalls, agInflight, agIssued, agMsgs, agCompleted>>
    /\ UNCHANGED notAgent

\* main.py:176 an event that is no final transcript: back to the loop head
AgentSkip ==
    /\ agPc = "passed"
    /\ ~Triggers(agIn[agPos])
    /\ agPc' = "next"
    /\ UNCHANGED <<agent, thread_id, agIn, agPos, agOut, agCalls, agInflight, agIssued, agMsgs, agCompleted>>
    /\ UNCHANGED notAgent

\* a variant of AgentNotReady that drops the transcript and reads on
AgentNotReadySkips ==
    /\ agPc = "passed"
    /\ Triggers(agIn[agPos])
    /\ agent = "none"
    /\ agPc' = "next"
    /\ UNCHANGED <<agent, thread_id, agIn, agPos, agOut, agCalls, agInflight, agIssued, agMsgs, agCompleted>>
    /\ UNCHANGED notAgent

\* main.py:178-179 a final transcript while the agent is not built
AgentNotReady ==
    /\ agPc = "passed"
    /\ Triggers(agIn[agPos])
    /\ agent = "none"
    /\ agPc' = "error"
    /\ UNCHANGED <<agent, thread_id, agIn, agPos, agOut, agCalls, agInflight, agIssued, agMsgs, agCompleted>>
    /\ UNCHANGED notAgent

\* a variant of CallKey that makes a key for every call after the first
CallKeyPerCall ==
    IF agCalls = <<>> THEN thread_id ELSE CHOOSE k \in ThreadIds : k # thread_id

\* main.py:184 {"configurable": {"thread_id": thread_id}}: the key of a call is
\* the one made on line 168 when the generator started
CallKey == thread_id

\* a variant of AgentInvoke that starts the stream and goes on reading upstream
AgentInvokePipelined ==
    /\ agPc = "passed"
    /\ agIn[agPos].type = "stt_output"
    /\ agent = "ready"
    /\ agCalls' = Append(agCalls, [event |-> agIn[agPos], key |-> CallKey,
                                   transcript |-> agIn[agPos].text])
    /\ agInflight' = agInflight \cup {Len(agCalls) + 1}
    /\ agIssued' = {}
    /\ agPc' = "next"
    /\ UNCHANGED <<agent, thread_id, agIn, agPos, agOut, agMsgs, agCompleted>>
    /\ UNCHANGED notAgent

\* main.py:182-186 agent.astream(transcript, thread_id)
AgentInvoke ==
    /\ agPc = "passed"
    /\ Triggers(agIn[agPos])
    /\ agent = "ready"
    /\ agCalls' = Append(agCalls, [event |-> agIn[agPos], key |-> CallKey,
                                   transcript |-> agIn[agPos].text])
    /\ agInflight' = agInflight \cup {Len(agCalls) + 1}
    /\ agIssued' = {}
    /\ agPc' = "stream"
    /\ UNCHANGED <<agent, thread_id, agIn, agPos, agOut, agMsgs, agCompleted>>
    /\ UNCHANGED notAgent

\* main.py:190-210 one message of the agent's stream and the events yielded for it
AgentMessage ==
    /\ agPc = "stream"
    /\ agMsgs < MaxMsgs
    /\ \E m \in NextMessages :
        /\ agOut' = agOut \o EventsFor(m)
        /\ agIssued' = agIssued \cup IssuedBy(m)
    /\ agMsgs' = agMsgs + 1
    /\ UNCHANGED <<agent, thread_id, agIn, agPos, agPc, agCalls, agInflight, agCompleted>>
    /\ UNCHANGED notAgent

\* a variant of AgentEnd that leaves the loop without yielding agent_end
AgentEndSilent ==
    /\ agPc = "stream"
    /\ agInflight' = agInflight \ {Len(agCalls)}
    /\ agCompleted' = agCompleted \cup {Len(agCalls)}
    /\ agPc' = "next"
    /\ UNCHANGED <<agent, thread_id, agIn, agPos, agOut, agCalls, agIssued, agMsgs>>
    /\ UNCHANGED notAgent

\* main.py:190,213 the agent's stream is exhausted: yield agent_end
AgentEnd ==
    /\ agPc = "stream"
    /\ agOut' = Append(agOut, AgentEndEvent)
    /\ agInflight' = agInflight \ {Len(agCalls)}
    /\ agCompleted' = agCompleted \cup {Len(agCalls)}
    /\ agPc' = "next"
    /\ UNCHANGED <<agent, thread_id, agIn, agPos, agCalls, agIssued, agMsgs>>
    /\ UNCHANGED notAgent

\* main.py:190 the collaborator's stream raises: the exception leaves the generator
AgentRaise ==
    /\ agPc = "stream"
    /\ agInflight' = agInflight \ {Len(agCalls)}
    /\ agPc' = "error"
    /\ UNCHANGED <<agent, thread_id, agIn, agPos, agOut, agCalls, agIssued, agMsgs, agCompleted>>
    /\ UNCHANGED notAgent

\* the stage's consumer stops draining it: the generator is closed (or its
\* task cancelled) where it stands, and with it the agent's stream
AgentAbandoned ==
    /\ agPc \in {"next", "passed", "stream"}
    /\ agInflight' = {}
    /\ agPc' = "closed"
    /\ UNCHANGED <<agent, thread_id, agIn, agPos, agOut, agCalls, agIssued, agMsgs, agCompleted>>
    /\ UNCHANGED notAgent

\* main.py:171 the upstream is exhausted: the generator returns
AgentDone ==
    /\ agPc = "next"
    /\ agPos = Len(agIn)
    /\ agPc' = "done"
    /\ UNCHANGED <<agent, thread_id, agIn, agPos, agOut, agCalls, agInflight, agIssued, agMsgs, agCompleted>>
    /\ UNCHANGED notAgent

AgentNext ==
    \/ Startup
    \/ AgentPass
    \/ AgentSkip
    \/ AgentNotReady
    \/ AgentInvoke
    \/ AgentMessage
    \/ AgentEnd
    \/ AgentRaise
    \/ AgentAbandoned
    \/ AgentDone

SpecAgent == AgentInit /\ [][AgentNext]_vars

-----------------------------------------------------------------------------
(* The agent stage's properties.                                            *)

IsUpstream(e) == e.type \notin AgentKinds

\* the positions of the final transcripts in an output
FinalPos(out) == {k \in 1..Len(out) : out[k].type = "stt_output"}

\* the last position of the turn that the final transcript at k opens
TurnLast(out, k) ==
    LET later == {j \in FinalPos(out) : j > k}
    IN  IF later = {} THEN Len(out)
        ELSE (CHOOSE j \in later : \A i \in later : j <= i) - 1

\* which astream call (1, 2, ...) the final transcript at k stands for
TurnIndex(out, k) == Cardinality({j \in FinalPos(out) : j <= k})

EndsOf(out, k) == {j \in (k + 1)..TurnLast(out, k) : out[j].type = "agent_end"}

AgentEventsOf(out, k) ==
    {j \in (k + 1)..TurnLast(out, k) : out[j].type \in AgentKinds \ {"agent_end"}}

\* the turn opened at k has exactly one agent_end, after its other agent events
WellEnded(out, k) ==
    /\ Cardinality(EndsOf(out, k)) = 1
    /\ \A e \in EndsOf(out, k) : \A j \in AgentEventsOf(out, k) : j < e

\* C5: every upstream event the agent stage has read is in its output,
\* unchanged and in upstream order; everything else in the output is an event
\* the stage made; the stage returns only when it has read the whole upstream.
C5_AgentPassthrough ==
    /\ SelectSeq(agOut, IsUpstream) = SubSeq(agIn, 1, agPos)
    /\ agPc = "done" => agPos = Len(agIn)

C5_Witness ==
    /\ agPc = "done"
    /\ Len(agIn) = 2
    /\ agIn[1].type = "stt_output"
    /\ agIn[2].type = "stt_chunk"
    /\ Len(agOut) >= 5

\* C7 as stated: once the stage is back at its loop head or has stopped, every
\* final transcript in its output has exactly one agent_end, after the agent
\* chunks, tool calls and tool results of its turn.
C7_EveryFinalEndsOnce ==
    agPc \in {"next", "done", "error", "closed"} =>
        \A k \in FinalPos(agOut) : WellEnded(agOut, k)

\* C7 amended: a final transcript whose astream call ran to its end has exactly
\* one agent_end, after the other agent events of its turn; a final transcript
\* whose call was refused, raised, was abandoned or is still running has none.
C7_CompletedTurnEndsOnce ==
    \A k \in FinalPos(agOut) :
        IF TurnIndex(agOut, k) \in agCompleted
        THEN WellEnded(agOut, k)
        ELSE EndsOf(agOut, k) = {}

C7_Witness ==
    /\ agPc = "done"
    /\ agCompleted = {1}
    /\ \E j \in 1..Len(agOut) : agOut[j].type = "tool_result"
    /\ agOut[Len(agOut)] = AgentEndEvent

\* C8: every tool_result in the output has the id of a tool_call that comes
\* earlier in the same turn (no final transcript or agent_end in between).
C8_ToolPairing ==
    \A j \in 1..Len(agOut) :
        agOut[j].type = "tool_result" =>
            \E i \in 1..(j - 1) :
                /\ agOut[i].type = "tool_call"
                /\ agOut[i].id = agOut[j].id
                /\ \A m \in i..j : agOut[m].type \notin {"stt_output", "agent_end"}

C8_Witness ==
    /\ Len(agCalls) = 2
    /\ agOut # <<>>
    /\ agOut[Len(agOut)].type = "tool_result"

\* C9: at most one astream call is in flight, and when a call starts every
\* earlier call has finished and its agent_end is already in the output.
C9_OneInvocationAtATime ==
    /\ [](Cardinality(agInflight) <= 1)
    /\ [][agCalls' # agCalls =>
            /\ agInflight = {}
            /\ Count({AgentEndEvent}, agOut) = Len(agCalls)]_vars

C9_Witness ==
    /\ Len(agCalls) = 2
    /\ agInflight = {2}

\* C10: every astream call was caused by a final transcript, and there are no
\* more calls than final transcripts read: no other event starts one.
C10_OnlyFinalsInvoke ==
    /\ \A k \in 1..Len(agCalls) : agCalls[k].event.type = "stt_output"
    /\ Len(agCalls) <= Cardinality(FinalPos(SubSeq(agIn, 1, agPos)))

C10_Witness ==
    /\ agPc = "done"
    /\ agIn = <<STTChunkEvent(<<"h">>), STTOutputEvent(Hi)>>
    /\ Len(agCalls) = 1

-----------------------------------------------------------------------------
(* utils.merge_async_iters, the fan-in merge that _tts_stream calls         *)
(* (main.py:33, main.py:270). utils.py is not among the sources, so the     *)
(* merge follows its description: all producers run concurrently, items are *)
(* yielded in arrival order, the stream ends when every producer has ended, *)
(* a producer's error is raised to the consumer after the siblings are      *)
(* cancelled, a consumer that stops has every producer cancelled and        *)
(* awaited, and a full queue makes the producers wait.                      *)

Producers == DOMAIN mProd

Item(p, v) == [src |-> p, val |-> v]

\* the values that producer p contributed to a sequence of items, in order
From(p, items) ==
    LET FromP(e) == e.src = p
        sel == SelectSeq(items, FromP)
    IN  [k \in 1..Len(sel) |-> sel[k].val]

ValuesOf(items) == [k \in 1..Len(items) |-> items[k].val]

NoneRunning == \A p \in Producers : mProd[p] # "running"

\* the merge call has returned to its consumer (or raised)
MergeReturned == mState \in {"ended", "failed", "cancelled"}

\* a variant of MergePut that puts the new item in front of the waiting ones
MergePutInFront(p, v) ==
    /\ mState = "running"
    /\ mProd[p] = "running"
    /\ Len(mQueue) < QueueCap
    /\ mQueue' = <<Item(p, v)>> \o mQueue
    /\ UNCHANGED <<mProd, mOut, mState, mErr>>

\* producer p hands an item to the merge; it waits while the queue is full
MergePut(p, v) ==
    /\ mState = "running"
    /\ mProd[p] = "running"
    /\ Len(mQueue) < QueueCap
    /\ mQueue' = Append(mQueue, Item(p, v))
    /\ UNCHANGED <<mProd, mOut, mState, mErr>>

\* producer p is exhausted
MergeProducerEnd(p) ==
    /\ mState = "running"
    /\ mProd[p] = "running"
    /\ mProd' = [mProd EXCEPT ![p] = "done"]
    /\ UNCHANGED <<mQueue, mOut, mState, mErr>>

\* producer p raises
MergeProducerRaise(p) ==
    /\ mState = "running"
    /\ mProd[p] = "running"
    /\ mProd' = [mProd EXCEPT ![p] = "failed"]
    /\ UNCHANGED <<mQueue, mOut, mState, mErr>>

\* the consumer takes the next item, in arrival order
MergeGet ==
    /\ mState = "running"
    /\ mQueue # <<>>
    /\ mOut' = Append(mOut, Head(mQueue))
    /\ mQueue' = Tail(mQueue)
    /\ UNCHANGED <<mProd, mState, mErr>>

\* a variant of MergeEnd that does not wait for the slowest producer
MergeEndOnFirstDone ==
    /\ mState = "running"
    /\ \E p \in Producers : mProd[p] = "done"
    /\ \A p \in Producers : mProd[p] # "failed"
    /\ mState' = "ended"
    /\ UNCHANGED <<mProd, mQueue, mOut, mErr>>

\* every producer has ended and every item is yielded: the merged stream ends
MergeEnd ==
    /\ mState = "running"
    /\ \A p \in Producers : mProd[p] = "done"
    /\ mQueue = <<>>
    /\ mState' = "ended"
    /\ UNCHANGED <<mProd, mQueue, mOut, mErr>>

\* a producer has raised: the merge stops yielding and turns to the siblings
MergeAbort ==
    /\ mState = "running"
    /\ \E p \in Producers : mProd[p] = "failed"
    /\ mState' = "failing"
    /\ UNCHANGED <<mProd, mQueue, mOut, mErr>>

\* the consumer stops draining: early exit, exception or cancel
MergeConsumerStop ==
    /\ mState = "running"
    /\ mState' = "closing"
    /\ UNCHANGED <<mProd, mQueue, mOut, mErr>>

\* a producer task that is still running is cancelled
MergeCancel(p) ==
    /\ mState \in {"closing", "failing"}
    /\ mProd[p] = "running"
    /\ mProd' = [mProd EXCEPT ![p] = "cancelled"]
    /\ UNCHANGED <<mQueue, mOut, mState, mErr>>

\* a variant of MergeRaise that raises at once and leaves the siblings running
MergeRaiseAtOnce ==
    /\ mState = "failing"
    /\ \E p \in Producers : mProd[p] = "failed" /\ mErr' = p
    /\ mState' = "failed"
    /\ UNCHANGED <<mProd, mQueue, mOut>>

\* the siblings are cancelled and awaited: the producer's error reaches the consumer
MergeRaise ==
    /\ mState = "failing"
    /\ NoneRunning
    /\ \E p \in Producers : mProd[p] = "failed" /\ mErr' = p
    /\ mState' = "failed"
    /\ UNCHANGED <<mProd, mQueue, mOut>>

\* a variant of MergeReturn that does not await the producers
MergeReturnAtOnce ==
    /\ mState = "closing"
    /\ mState' = "cancelled"
    /\ UNCHANGED <<mProd, mQueue, mOut, mErr>>

\* every producer is cancelled and awaited: the merge call returns
MergeReturn ==
    /\ mState = "closing"
    /\ NoneRunning
    /\ mState' = "cancelled"
    /\ UNCHANGED <<mProd, mQueue, mOut, mErr>>

-----------------------------------------------------------------------------
(* The merge run with NProd producers of given finite sequences.            *)

\* the sequences 1, 2, ..., n: the merge never looks into an item, so what
\* matters is that a producer's items differ from each other (their order
\* shows) and that different producers yield equal items (copies show)
Counting == {[k \in 1..n |-> k] : n \in 0..MaxItems}

RECURSIVE SumLen(_, _)
\* the total length of the sequences f[p], p in S
SumLen(f, S) == IF S = {} THEN 0
                ELSE LET p == CHOOSE q \in S : TRUE
                     IN  Len(f[p]) + SumLen(f, S \ {p})

GenInit ==
    /\ AgentIdle
    /\ TtsIdle
    /\ DriverIdle
    /\ SttIdle
    /\ OnceIdle
    /\ TurnIdle
    /\ RunIdle
    /\ mProd = [p \in 1..NProd |-> "running"]
    /\ mQueue = <<>>
    /\ mOut = <<>>
    /\ mState = "running"
    /\ mErr = 0
    /\ gSrc \in {f \in [1..NProd -> Counting] : SumLen(f, 1..NProd) <= MaxItems}
    /\ gPos = [p \in 1..NProd |-> 0]
    /\ gFail \in [1..NProd -> BOOLEAN]

\* producer p yields its next item
GenYield(p) ==
    /\ gPos[p] < Len(gSrc[p])
    /\ MergePut(p, gSrc[p][gPos[p] + 1])
    /\ gPos' = [gPos EXCEPT ![p] = gPos[p] + 1]
    /\ UNCHANGED <<gSrc, gFail, notMerge>>

\* producer p has no more items
GenEnd(p) ==
    /\ gPos[p] = Len(gSrc[p])
    /\ ~gFail[p]
    /\ MergeProducerEnd(p)
    /\ UNCHANGED <<genVars, notMerge>>

\* producer p raises after its last item
GenRaise(p) ==
    /\ gPos[p] = Len(gSrc[p])
    /\ gFail[p]
    /\ MergeProducerRaise(p)
    /\ UNCHANGED <<genVars, notMerge>>

GenGet == MergeGet /\ UNCHANGED <<genVars, notMerge>>
GenEndOfStream == MergeEnd /\ UNCHANGED <<genVars, notMerge>>
GenAbort == MergeAbort /\ UNCHANGED <<genVars, notMerge>>
GenConsumerStop == MergeConsumerStop /\ UNCHANGED <<genVars, notMerge>>
GenCancel(p) == MergeCancel(p) /\ UNCHANGED <<genVars, notMerge>>
GenRaised == MergeRaise /\ UNCHANGED <<genVars, notMerge>>
GenReturn == MergeReturn /\ UNCHANGED <<genVars, notMerge>>

GenNext ==
    \/ \E p \in Producers : GenYield(p)
    \/ \E p \in Producers : GenEnd(p)
    \/ \E p \in Producers : GenRaise(p)
    \/ GenGet
    \/ GenEndOfStream
    \/ GenAbort
    \/ GenConsumerStop
    \/ \E p \in Producers : GenCancel(p)
    \/ GenRaised
    \/ GenReturn

SpecMerge == GenInit /\ [][GenNext]_vars

\* the event loop runs every task that can run: the consumer keeps taking
\* items, and the merge acts on an end, an error or a cancel that it can see
SpecMergeFair ==
    /\ SpecMerge
    /\ WF_vars(GenGet)
    /\ WF_vars(GenEndOfStream)
    /\ WF_vars(GenAbort)
    /\ WF_vars(\E p \in Producers : GenCancel(p))
    /\ WF_vars(GenRaised)
    /\ WF_vars(GenReturn)

-----------------------------------------------------------------------------
(* The merge's properties.                                                  *)

RECURSIVE SumCount(_, _, _)
\* how often v occurs in the sequences f[p], p in S
SumCount(v, f, S) == IF S = {} THEN 0
                     ELSE LET p == CHOOSE q \in S : TRUE
                          IN  Count({v}, f[p]) + SumCount(v, f, S \ {p})

AllEnded == \A p \in Producers : mProd[p] = "done"

SomeFailed == \E p \in Producers : mProd[p] = "failed"

\* C1: when the merged stream ends, every producer has ended and the stream
\* has yielded every value exactly as often as the producers yielded it; and
\* once every producer has ended, the stream ends (unless the consumer stops).
C1_MergeComplete ==
    /\ [](mState = "ended" =>
            /\ AllEnded
            /\ \A v \in 1..(MaxItems + 1) :
                  Count({v}, ValuesOf(mOut)) = SumCount(v, gSrc, Producers))
    /\ (AllEnded ~> mState \in {"ended", "closing", "cancelled"})

C1_Witness ==
    /\ mState = "ended"
    /\ Len(gSrc[1]) = 2
    /\ Len(gSrc[2]) = 1
    /\ mOut[1].src = 1
    /\ mOut[2].src = 2

\* C2: when the merge returns after its consumer stopped, no producer task is
\* running: each one has ended, raised, or been cancelled.
C2_NoProducerOutlivesMerge ==
    mState = "cancelled" =>
        \A p \in Producers : mProd[p] \in {"done", "failed", "cancelled"}

C2_Witness ==
    /\ mState = "cancelled"
    /\ mOut # <<>>
    /\ mQueue # <<>>
    /\ \A p \in Producers : mProd[p] = "cancelled"

\* C3: the error the consumer gets is the error of a producer that raised,
\* and by then no sibling is running; a merge with a producer that raised
\* never ends as if complete; what was yielded stays yielded; and a
\* producer's error does reach a consumer that keeps draining.
C3_ErrorSurfaces ==
    /\ [](mState = "failed" =>
            /\ mErr \in Producers
            /\ mProd[mErr] = "failed"
            /\ \A p \in Producers : mProd[p] # "running")
    /\ [](SomeFailed => mState # "ended")
    /\ [][IsPrefix(mOut, mOut')]_vars
    /\ (SomeFailed ~> mState \in {"failed", "closing", "cancelled"})

C3_Witness ==
    /\ mState = "failed"
    /\ mOut # <<>>
    /\ \E p \in Producers : mProd[p] = "cancelled" /\ gPos[p] < Len(gSrc[p])

\* C4: the items of one producer come out of the merge in the order in which
\* that producer yielded them.
C4_FifoPerProducer ==
    \A p \in Producers : IsPrefix(From(p, mOut), SubSeq(gSrc[p], 1, gPos[p]))

C4_Witness ==
    /\ Len(mOut) = 3
    /\ mOut[1] = Item(1, 1)
    /\ mOut[2] = Item(2, 1)
    /\ mOut[3] = Item(1, 2)

-----------------------------------------------------------------------------
(* hume_tts.py HumeTTS, the TTS collaborator of the synthesis stage         *)

\* the end-of-stream marker (None) that _message_handler queues
NoneMsg == Ev("none", <<>>, "")

\* hume_tts.py:67 not text.strip()
IsBlank(text) == \A k \in 1..Len(text) : text[k] = " "

\* hume_tts.py:135,182,203 self._ws and self._ws.close_code is None
WsOpen == ws # 0 /\ conns[ws] = "open"

\* hume_tts.py:203-221 _ensure_connection, called before close(): keep an open
\* WebSocket, else connect, start a message handler and set the signal
EnsureConnection ==
    IF WsOpen
    THEN UNCHANGED <<conns, ws, hnd, hTask, connSignal>>
    ELSE /\ conns' = Append(conns, "open")
         /\ ws' = Len(conns) + 1
         /\ hnd' = Append(hnd, "running")
         /\ hTask' = Len(hnd) + 1
         /\ connSignal' = TRUE

\* hume_tts.py:63-92 send_text: nothing for a blank text, else one utterance
SendText(text) ==
    IF IsBlank(text)
    THEN UNCHANGED <<tSent, conns, ws, hnd, hTask, connSignal>>
    ELSE /\ EnsureConnection
         /\ tSent' = Append(tSent, text)

\* hume_tts.py:133-137 the finally of receive_events' reading loop
ReceiveFinally ==
    /\ conns' = IF WsOpen THEN [conns EXCEPT ![ws] = "closed"] ELSE conns
    /\ ws' = 0

\* hume_tts.py:158-163 the vendor sends audio on WebSocket c: it is queued
MessageHandlerAudio(c) ==
    /\ hnd[c] = "running"
    /\ conns[c] = "open"
    /\ vChunks < MaxChunks
    /\ msgQ' = Append(msgQ, TTSChunkEvent(<<vChunks + 1>>))
    /\ vChunks' = vChunks + 1
    /\ UNCHANGED <<tSent, conns, ws, hnd, hTask, connSignal, closeSignal, rPc, rMsg, vFaults>>
    /\ UNCHANGED <<upstreamVars, mergeVars, notTts>>

\* hume_tts.py:153-156,176-178 the vendor reports an error: the handler queues
\* None, leaves its loop, and queues None again in its finally
MessageHandlerError(c) ==
    /\ hnd[c] = "running"
    /\ conns[c] = "open"
    /\ vFaults < MaxFaults
    /\ msgQ' = msgQ \o <<NoneMsg, NoneMsg>>
    /\ hnd' = [hnd EXCEPT ![c] = "done"]
    /\ vFaults' = vFaults + 1
    /\ UNCHANGED <<tSent, conns, ws, hTask, connSignal, closeSignal, rPc, rMsg, vChunks>>
    /\ UNCHANGED <<upstreamVars, mergeVars, notTts>>

\* the vendor closes WebSocket c
VendorClose(c) ==
    /\ conns[c] = "open"
    /\ vFaults < MaxFaults
    /\ conns' = [conns EXCEPT ![c] = "closed"]
    /\ vFaults' = vFaults + 1
    /\ UNCHANGED <<tSent, ws, hnd, hTask, connSignal, closeSignal, msgQ, rPc, rMsg, vChunks>>
    /\ UNCHANGED <<upstreamVars, mergeVars, notTts>>

\* hume_tts.py:148,172-178 the handler finds its WebSocket closed: it queues None
MessageHandlerClosed(c) ==
    /\ hnd[c] = "running"
    /\ conns[c] = "closed"
    /\ msgQ' = Append(msgQ, NoneMsg)
    /\ hnd' = [hnd EXCEPT ![c] = "done"]
    /\ UNCHANGED <<tSent, conns, ws, hTask, connSignal, closeSignal, rPc, rMsg, vChunks, vFaults>>
    /\ UNCHANGED <<upstreamVars, mergeVars, notTts>>

-----------------------------------------------------------------------------
(* main.py _tts_stream: process_upstream (producer 1) merged with           *)
(* tts.receive_events (producer 2)                                          *)

Upstream == 1
Audio == 2

\* the task of producer p is running and has not been told to stop
ProducerRuns(p) == mState = "running" /\ mProd[p] = "running"

\* the upstream events: what the agent stage may send
TtsInputs == {STTOutputEvent(Hi), AgentChunkEvent(Ok), AgentChunkEvent(NoText), AgentEndEvent}

RECURSIVE Join(_)
\* main.py:264 "".join(buffer)
Join(buf) == IF buf = <<>> THEN <<>> ELSE Head(buf) \o Join(Tail(buf))

TtsInit ==
    /\ AgentIdle
    /\ DriverIdle
    /\ SttIdle
    /\ OnceIdle
    /\ TurnIdle
    /\ RunIdle
    /\ mProd = <<"running", "running">>
    /\ mQueue = <<>>
    /\ mOut = <<>>
    /\ mState = "running"
    /\ mErr = 0
    /\ gSrc = <<>>
    /\ gPos = <<>>
    /\ gFail = <<>>
    /\ tIn \in SeqsUpTo(TtsInputs, MaxTtsIn)
    /\ tPos = 0
    /\ uPc = "read"
    /\ buffer = <<>>
    /\ tCalls = <<>>
    /\ tSent = <<>>
    /\ conns = <<>>
    /\ ws = 0
    /\ hnd = <<>>
    /\ hTask = 0
    /\ connSignal = FALSE
    /\ closeSignal = FALSE
    /\ msgQ = <<>>
    /\ rPc = "wait"
    /\ rMsg = <<>>
    /\ vChunks = 0
    /\ vFaults = 0

\* main.py:256 process_upstream takes the next upstream event
ProcessUpstreamRead ==
    /\ ProducerRuns(Upstream)
    /\ uPc = "read"
    /\ tPos < Len(tIn)
    /\ tPos' = tPos + 1
    /\ uPc' = "put"
    /\ UNCHANGED <<tIn, buffer, tCalls, humeVars, mergeVars, notTts>>

\* a variant of ProcessUpstreamYield that passes on agent events only
ProcessUpstreamYieldAgentOnly ==
    /\ uPc = "put"
    /\ IF tIn[tPos].type \in AgentKinds
       THEN MergePut(Upstream, tIn[tPos])
       ELSE ProducerRuns(Upstream) /\ UNCHANGED mergeVars
    /\ uPc' = "after"
    /\ UNCHANGED <<tIn, tPos, buffer, tCalls, humeVars, notTts>>

\* main.py:258 process_upstream yields the event: it goes into the merge
ProcessUpstreamYield ==
    /\ uPc = "put"
    /\ MergePut(Upstream, tIn[tPos])
    /\ uPc' = "after"
    /\ UNCHANGED <<tIn, tPos, buffer, tCalls, humeVars, notTts>>

\* a variant of SendsOn that synthesizes every agent text chunk as it arrives
SendsOnEveryChunk(event) == event.type \in {"agent_chunk", "agent_end"}

\* a variant of SendsOn that flushes the buffer at the next final transcript too
SendsOnTranscriptToo(event) == event.type \in {"agent_end", "stt_output"}

\* main.py:263 the event that makes process_upstream call tts.send_text
SendsOn(event) == event.type = "agent_end"

\* main.py:260-265 after the yield: buffer an agent_chunk's text; on agent_end
\* call send_text with the joined buffer and empty it. send_text raises when
\* the TTS was closed before (hume_tts.py:199-202).
ProcessUpstreamAfter ==
    /\ ProducerRuns(Upstream)
    /\ uPc = "after"
    /\ LET event == tIn[tPos]
           buffered == IF event.type = "agent_chunk"
                       THEN Append(buffer, event.text) ELSE buffer
           sends == SendsOn(event)
       IN  /\ tCalls' = IF sends THEN Append(tCalls, Join(buffered)) ELSE tCalls
           /\ IF sends /\ ~IsBlank(Join(buffered)) /\ closeSignal
              THEN /\ MergeProducerRaise(Upstream)
                   /\ uPc' = "done"
                   /\ buffer' = buffered
                   /\ UNCHANGED <<tSent, conns, ws, hnd, hTask, connSignal>>
              ELSE /\ IF sends
                      THEN SendText(Join(buffered))
                      ELSE UNCHANGED <<tSent, conns, ws, hnd, hTask, connSignal>>
                   /\ buffer' = IF sends THEN <<>> ELSE buffered
                   /\ uPc' = "read"
                   /\ UNCHANGED mergeVars
    /\ UNCHANGED <<tIn, tPos, closeSignal, msgQ, rPc, rMsg, vChunks, vFaults, notTts>>

\* main.py:256 the upstream is exhausted: process_upstream returns
ProcessUpstreamEnd ==
    /\ uPc = "read"
    /\ tPos = Len(tIn)
    /\ MergeProducerEnd(Upstream)
    /\ uPc' = "done"
    /\ UNCHANGED <<tIn, tPos, buffer, tCalls, humeVars, notTts>>

\* hume_tts.py:95-112 receive_events wakes up on the connection signal
ReceiveConnected ==
    /\ rPc = "wait"
    /\ ~closeSignal
    /\ connSignal
    /\ connSignal' = FALSE
    /\ rPc' = "read"
    /\ UNCHANGED <<tSent, conns, ws, hnd, hTask, closeSignal, msgQ, rMsg, vChunks, vFaults>>

\* hume_tts.py:115-120 the queue is empty: receive_events waits for a message
ReceiveBlock ==
    /\ rPc = "read"
    /\ ~closeSignal
    /\ msgQ = <<>>
    /\ rPc' = "get"
    /\ UNCHANGED <<tSent, conns, ws, hnd, hTask, connSignal, closeSignal, msgQ, rMsg,
                   vChunks, vFaults>>

\* hume_tts.py:128-129 no message within the timeout: back to the loop test
ReceiveTimeout ==
    /\ rPc = "get"
    /\ msgQ = <<>>
    /\ rPc' = "read"
    /\ UNCHANGED <<tSent, conns, ws, hnd, hTask, connSignal, closeSignal, msgQ, rMsg,
                   vChunks, vFaults>>

\* hume_tts.py:115-137 receive_events takes a message off the queue: None ends
\* the reading (and closes the current WebSocket), audio is to be yielded. A
\* wait that began before close() still takes the message that ends it.
ReceiveMessage ==
    /\ \/ rPc = "read" /\ ~closeSignal
       \/ rPc = "get"
    /\ msgQ # <<>>
    /\ msgQ' = Tail(msgQ)
    /\ IF Head(msgQ) = NoneMsg
       THEN /\ ReceiveFinally
            /\ rPc' = "wait"
            /\ rMsg' = rMsg
       ELSE /\ rMsg' = Head(msgQ)
            /\ rPc' = "put"
            /\ UNCHANGED <<conns, ws>>
    /\ UNCHANGED <<tSent, hnd, hTask, connSignal, closeSignal, vChunks, vFaults>>

\* receive_events as the second producer of the stage's merge
ReceiveEventsConnected ==
    /\ ProducerRuns(Audio)
    /\ ReceiveConnected
    /\ UNCHANGED <<upstreamVars, mergeVars, notTts>>

ReceiveEventsMessage ==
    /\ ProducerRuns(Audio)
    /\ ReceiveMessage
    /\ UNCHANGED <<upstreamVars, mergeVars, notTts>>

ReceiveEventsBlock ==
    /\ ProducerRuns(Audio)
    /\ ReceiveBlock
    /\ UNCHANGED <<upstreamVars, mergeVars, notTts>>

ReceiveEventsTimeout ==
    /\ ProducerRuns(Audio)
    /\ ReceiveTimeout
    /\ UNCHANGED <<upstreamVars, mergeVars, notTts>>

\* hume_tts.py:126 receive_events yields the audio: it goes into the merge
ReceiveEventsYield ==
    /\ rPc = "put"
    /\ MergePut(Audio, rMsg)
    /\ rPc' = "read"
    /\ UNCHANGED <<tSent, conns, ws, hnd, hTask, connSignal, closeSignal, msgQ, rMsg,
                   vChunks, vFaults>>
    /\ UNCHANGED <<upstreamVars, notTts>>

\* main.py:270-271 the stage takes the next merged event and yields it
TtsYield == MergeGet /\ UNCHANGED <<ttsVars, notTts>>

\* the stage's consumer stops draining it
TtsConsumerStop == MergeConsumerStop /\ UNCHANGED <<ttsVars, notTts>>

\* the merge cancels process_upstream, which stops where it stands
TtsCancelUpstream ==
    /\ MergeCancel(Upstream)
    /\ UNCHANGED <<upstreamVars, humeVars, notTts>>

\* the merge cancels receive_events; inside its reading loop the finally runs
TtsCancelAudio ==
    /\ MergeCancel(Audio)
    /\ IF rPc \in {"read", "get", "put"} THEN ReceiveFinally ELSE UNCHANGED <<conns, ws>>
    /\ rPc' = "done"
    /\ UNCHANGED <<tSent, hnd, hTask, connSignal, closeSignal, msgQ, rMsg, vChunks, vFaults>>
    /\ UNCHANGED <<upstreamVars, notTts>>

\* the merge has awaited both producers and returns
TtsMergeReturn == MergeReturn /\ UNCHANGED <<ttsVars, notTts>>

\* main.py:272-274 and hume_tts.py:180-196: the stage's finally closes the
\* TTS: close the WebSocket, set the close signal, cancel the handler task
\* (whose finally queues None)
TtsClose ==
    /\ MergeReturned
    /\ ~closeSignal
    /\ conns' = IF WsOpen THEN [conns EXCEPT ![ws] = "closed"] ELSE conns
    /\ ws' = 0
    /\ closeSignal' = TRUE
    /\ IF hTask # 0 /\ hnd[hTask] = "running"
       THEN /\ hnd' = [hnd EXCEPT ![hTask] = "cancelled"]
            /\ msgQ' = Append(msgQ, NoneMsg)
       ELSE UNCHANGED <<hnd, msgQ>>
    /\ UNCHANGED <<tSent, hTask, connSignal, rPc, rMsg, vChunks, vFaults>>
    /\ UNCHANGED <<upstreamVars, mergeVars, notTts>>

TtsNext ==
    \/ ProcessUpstreamRead
    \/ ProcessUpstreamYield
    \/ ProcessUpstreamAfter
    \/ ProcessUpstreamEnd
    \/ ReceiveEventsConnected
    \/ ReceiveEventsMessage
    \/ ReceiveEventsBlock
    \/ ReceiveEventsTimeout
    \/ ReceiveEventsYield
    \/ \E c \in 1..Len(conns) : MessageHandlerAudio(c)
    \/ \E c \in 1..Len(conns) : MessageHandlerError(c)
    \/ \E c \in 1..Len(conns) : VendorClose(c)
    \/ \E c \in 1..Len(conns) : MessageHandlerClosed(c)
    \/ TtsYield
    \/ TtsConsumerStop
    \/ TtsCancelUpstream
    \/ TtsCancelAudio
    \/ TtsMergeReturn
    \/ TtsClose

SpecTts == TtsInit /\ [][TtsNext]_vars

\* the events the synthesis stage has yielded, in order
ttsOut == ValuesOf(mOut)

-----------------------------------------------------------------------------
(* The synthesis stage's properties.                                        *)

\* events of process_upstream that wait in the merge
UpstreamQueued == From(Upstream, mQueue)

\* the upstream events that process_upstream has yielded so far
UpstreamYielded == SubSeq(tIn, 1, IF uPc = "put" THEN tPos - 1 ELSE tPos)

\* C6: the events in the stage's output that are not synthesized audio are,
\* unchanged and in upstream order, the upstream events yielded so far less
\* those still waiting in the merge; everything else in the output is a
\* tts_chunk; and while the stage is being drained, process_upstream returns
\* only when it has yielded the whole upstream.
C6_TtsPassthrough ==
    /\ From(Upstream, mOut) \o UpstreamQueued = UpstreamYielded
    /\ \A k \in 1..Len(mOut) : mOut[k].src = Audio => mOut[k].val.type = "tts_chunk"
    /\ mProd[Upstream] = "done" => tPos = Len(tIn)
    /\ (mProd[Upstream] = "done" /\ UpstreamQueued = <<>>) => From(Upstream, mOut) = tIn

C6_Witness ==
    /\ mState = "running"
    /\ mProd[Upstream] = "done"
    /\ tIn = <<AgentChunkEvent(Ok), AgentEndEvent, STTOutputEvent(Hi)>>
    /\ Len(ttsOut) = 5
    /\ ttsOut[3].type = "tts_chunk"
    /\ ttsOut[4] = STTOutputEvent(Hi)
    /\ ttsOut[5].type = "tts_chunk"

-----------------------------------------------------------------------------
(* Batching of the agent's text, one synthesis request per turn             *)

\* how many upstream events process_upstream has handled after yielding them
Handled == IF uPc \in {"put", "after"} THEN tPos - 1 ELSE tPos

\* the positions of the agent_end events handled so far
HandledEnds == {k \in 1..Handled : tIn[k].type = "agent_end"}

\* the last agent_end before position k, 0 when there is none
EndBefore(k) ==
    LET earlier == {j \in HandledEnds : j < k}
    IN  IF earlier = {} THEN 0 ELSE CHOOSE j \in earlier : \A i \in earlier : i <= j

\* the texts of the agent_chunk events at positions a..b of the upstream, in order
ChunkTexts(a, b) ==
    LET at == SelectSeq([i \in 1..(b - a + 1) |-> a + i - 1],
                        LAMBDA i : tIn[i].type = "agent_chunk")
    IN  [n \in 1..Len(at) |-> tIn[at[n]].text]

RECURSIVE Concat(_)
\* the texts of a sequence one after the other
Concat(texts) == IF texts = <<>> THEN <<>> ELSE texts[1] \o Concat(Tail(texts))

-----------------------------------------------------------------------------
(* HumeTTS used directly, as test_hume_tts.py does: tasks call send_text    *)
(* and close(), another iterates receive_events                             *)

\* most send_text calls the direct user makes
MaxSends == 2

HumeInit ==
    /\ AgentIdle
    /\ MergeIdle
    /\ tIn = <<>>
    /\ tPos = 0
    /\ uPc = "read"
    /\ buffer = <<>>
    /\ tCalls = <<>>
    /\ tSent = <<>>
    /\ conns = <<>>
    /\ ws = 0
    /\ hnd = <<>>
    /\ hTask = 0
    /\ connSignal = FALSE
    /\ closeSignal = FALSE
    /\ msgQ = <<>>
    /\ rPc = "idle"
    /\ rMsg = <<>>
    /\ vChunks = 0
    /\ vFaults = 0
    /\ DriverIdle
    /\ SttIdle
    /\ OnceIdle
    /\ TurnIdle
    /\ RunIdle

\* one send_text call: its text, where close() stood when it was made, how it
\* ended, and whether it opened a WebSocket
Sent(text, during, result, opened) ==
    [text |-> text, during |-> during, result |-> result, opened |-> opened]

\* hume_tts.py:203-215 _ensure_connection connects whenever self._ws is not
\* an open WebSocket, whatever other calls are doing
Connects == ~WsOpen

\* hume_tts.py:63-70,198-215 send_text, called before, during or after
\* close(): nothing for a blank text; RuntimeError from _ensure_connection
\* once the close signal is set; on an open WebSocket one utterance; else the
\* call awaits websockets.connect
HumeSendText ==
    /\ dSends < MaxSends
    /\ \E text \in Texts :
          IF IsBlank(text)
          THEN /\ dCalls' = Append(dCalls, Sent(text, dPc, "noop", FALSE))
               /\ UNCHANGED <<tSent, dConnecting>>
          ELSE IF closeSignal
          THEN /\ dCalls' = Append(dCalls, Sent(text, dPc, "RuntimeError", FALSE))
               /\ UNCHANGED <<tSent, dConnecting>>
          ELSE /\ dCalls' = Append(dCalls, Sent(text, dPc, "sent", Connects))
               /\ IF Connects
                  THEN dConnecting' = Append(dConnecting, text) /\ UNCHANGED tSent
                  ELSE tSent' = Append(tSent, text) /\ UNCHANGED dConnecting
    /\ dSends' = dSends + 1
    /\ UNCHANGED <<conns, ws, hnd, hTask, connSignal, closeSignal, msgQ, rPc, rMsg, vChunks,
                   vFaults, dPc, hOut, notHume>>

\* hume_tts.py:215-221,89-92 websockets.connect has returned to one of the
\* calls: it becomes self._ws, a message handler is started for it, the
\* connection signal is set, and the call sends its utterance on it
HumeConnected ==
    /\ dConnecting # <<>>
    /\ conns' = Append(conns, "open")
    /\ ws' = Len(conns) + 1
    /\ hnd' = Append(hnd, "running")
    /\ hTask' = Len(hnd) + 1
    /\ connSignal' = TRUE
    /\ tSent' = Append(tSent, Head(dConnecting))
    /\ dConnecting' = Tail(dConnecting)
    /\ UNCHANGED <<closeSignal, msgQ, rPc, rMsg, vChunks, vFaults, dPc, dSends, hOut,
                   dCalls, notHume>>

\* hume_tts.py:180-187 close() finds the WebSocket open and awaits its closing
HumeCloseBegin ==
    /\ dPc = "open"
    /\ WsOpen
    /\ conns' = [conns EXCEPT ![ws] = "closed"]
    /\ dPc' = "closing"
    /\ UNCHANGED <<tSent, ws, hnd, hTask, connSignal, closeSignal, msgQ, rPc, rMsg,
                   vChunks, vFaults, dSends, hOut, dCalls, dConnecting, notHume>>

\* hume_tts.py:189-196 close() forgets the WebSocket, sets the close signal and
\* cancels the handler task, whose finally queues None; with no WebSocket open
\* close() comes here without having awaited anything
HumeCloseFinish ==
    /\ dPc = "closing" \/ (dPc = "open" /\ ~WsOpen)
    /\ ws' = 0
    /\ closeSignal' = TRUE
    /\ IF hTask # 0 /\ hnd[hTask] = "running"
       THEN /\ hnd' = [hnd EXCEPT ![hTask] = "cancelled"]
            /\ msgQ' = Append(msgQ, NoneMsg)
       ELSE UNCHANGED <<hnd, msgQ>>
    /\ dPc' = "closed"
    /\ UNCHANGED <<tSent, conns, hTask, connSignal, rPc, rMsg, vChunks, vFaults,
                   dSends, hOut, dCalls, dConnecting, notHume>>

\* hume_tts.py:95 the iteration of receive_events starts with the loop test
HumeReceiveStart ==
    /\ rPc = "idle"
    /\ rPc' = IF closeSignal THEN "done" ELSE "wait"
    /\ UNCHANGED <<tSent, conns, ws, hnd, hTask, connSignal, closeSignal, msgQ, rMsg,
                   vChunks, vFaults, driverVars, notHume>>

HumeReceiveConnected == ReceiveConnected /\ UNCHANGED <<driverVars, notHume>>

HumeReceiveBlock == ReceiveBlock /\ UNCHANGED <<driverVars, notHume>>

HumeReceiveTimeout == ReceiveTimeout /\ UNCHANGED <<driverVars, notHume>>

HumeReceiveMessage == ReceiveMessage /\ UNCHANGED <<driverVars, notHume>>

\* hume_tts.py:126 and test_hume_tts.py:16-18 receive_events yields the audio
\* to the loop that iterates it, which asks for the next event
HumeReceiveYield ==
    /\ rPc = "put"
    /\ hOut' = Append(hOut, rMsg)
    /\ rPc' = "read"
    /\ UNCHANGED <<tSent, conns, ws, hnd, hTask, connSignal, closeSignal, msgQ, rMsg,
                   vChunks, vFaults, dPc, dSends, dCalls, dConnecting, notHume>>

\* a variant of ReceiveClosed that sees the close signal in the reading loop only
ReceiveClosedInLoopOnly ==
    /\ closeSignal
    /\ rPc = "read"
    /\ ReceiveFinally
    /\ rPc' = "done"
    /\ UNCHANGED <<tSent, hnd, hTask, connSignal, closeSignal, msgQ, rMsg, vChunks, vFaults>>

\* hume_tts.py:95-109,115,133-137 receive_events sees the close signal: in its
\* wait for a connection (one of the two tasks it waits for), or at the test
\* of the reading loop, which it leaves through the finally
ReceiveClosed ==
    /\ closeSignal
    /\ rPc \in {"wait", "read"}
    /\ IF rPc = "read" THEN ReceiveFinally ELSE UNCHANGED <<conns, ws>>
    /\ rPc' = "done"
    /\ UNCHANGED <<tSent, hnd, hTask, connSignal, closeSignal, msgQ, rMsg, vChunks, vFaults>>

HumeReceiveClosed == ReceiveClosed /\ UNCHANGED <<driverVars, notHume>>

HumeNext ==
    \/ HumeSendText
    \/ HumeConnected
    \/ HumeCloseBegin
    \/ HumeCloseFinish
    \/ HumeReceiveStart
    \/ HumeReceiveConnected
    \/ HumeReceiveBlock
    \/ HumeReceiveTimeout
    \/ HumeReceiveMessage
    \/ HumeReceiveYield
    \/ HumeReceiveClosed
    \/ \E c \in 1..Len(conns) : MessageHandlerAudio(c)
    \/ \E c \in 1..Len(conns) : MessageHandlerError(c)
    \/ \E c \in 1..Len(conns) : VendorClose(c)
    \/ \E c \in 1..Len(conns) : MessageHandlerClosed(c)

SpecHume == HumeInit /\ [][HumeNext]_vars

\* close() runs to its end, and the receive_events generator and the loop that
\* iterates it keep being scheduled
SpecHumeFair ==
    /\ SpecHume
    /\ WF_vars(HumeCloseFinish)
    /\ WF_vars(HumeReceiveConnected)
    /\ WF_vars(HumeReceiveBlock)
    /\ WF_vars(HumeReceiveTimeout)
    /\ WF_vars(HumeReceiveMessage)
    /\ WF_vars(HumeReceiveYield)
    /\ WF_vars(HumeReceiveClosed)

\* C12: once close() has been called, an iteration of receive_events that
\* has started, before the call or after it, comes to its end, whatever the
\* state of the client was: never connected, connected with nothing queued,
\* or connected with audio queued.
C12_CloseEndsReceiveEvents == (dPc # "open" /\ rPc # "idle") ~> (rPc = "done")

\* close() came while audio was queued: receive_events has ended and left it
C12_Witness ==
    /\ dPc = "closed"
    /\ rPc = "done"
    /\ \E k \in 1..Len(msgQ) : msgQ[k].type = "tts_chunk"

-----------------------------------------------------------------------------
(* The transcription stage: main.py _stt_stream ("web") and                 *)
(* _voice_agent.py VoicePipeline.buffer | transcribe ("pipeline"), over the *)
(* STT client of assemblyai_stt.py. main.py names its client AssemblyAISTT  *)
(* and iterates its receive_events, which assemblyai_stt.py does not        *)
(* define: connect, send_audio, terminate and close are those of            *)
(* AssemblyAISTTTransform, and receive_events is its receive_messages with  *)
(* the partial results re-emitted too, as the description of the stage has  *)
(* it.                                                                      *)

\* longest audio stream fed to the transcription stage
MaxAudio == 2
\* most messages the STT vendor sends during one run of the stage
MaxVendor == 2
\* most WebSockets the STT vendor closes during one run of the stage
MaxDrops == 1

\* an audio chunk is a sequence of samples, <<>> being the empty frame. The
\* stage does not look into a chunk beyond its being empty or not, so the
\* chunk at place k of a stream is the empty frame or the frame <<k>>.
AudioStreams ==
    {a \in SeqsUpTo({<<>>} \cup {<<k>> : k \in 1..MaxAudio}, MaxAudio) :
        \A k \in 1..Len(a) : a[k] \in {<<>>, <<k>>}}

Blank == <<" ">>

\* assemblyai_stt.py:86-124 the messages of the vendor that the client tells apart
VendorMessage(t, x, f) == [type |-> t, transcript |-> x, turn_is_formatted |-> f]
Begin == VendorMessage("Begin", <<>>, FALSE)
Turn(x, f) == VendorMessage("Turn", x, f)
Termination == VendorMessage("Termination", <<>>, FALSE)
UnknownMessage == VendorMessage("Error", <<>>, FALSE)
\* assemblyai_stt.py:86,126 a payload that json.loads rejects
Undecodable == VendorMessage("undecodable", <<>>, FALSE)

VendorMessages == {Begin, Turn(<<"h">>, FALSE), Turn(Hi, TRUE), Turn(Blank, TRUE),
                   Termination, UnknownMessage, Undecodable}

\* assemblyai_stt.py:54,141,146,154,162 self.ws and self.ws.close_code is None
SttOpen == sttWs # 0 /\ sttConns[sttWs] = "open"

\* one operation on the client or its WebSocket: who made it, on which
\* WebSocket (0 when none was open), with which audio
Op(op, by, conn, chunk) == [op |-> op, by |-> by, conn |-> conn, chunk |-> chunk]

\* assemblyai_stt.py:134-148 send_audio(chunk) is called with self.ws open
\* and sends the chunk on it
SttSendAudio(chunk) ==
    /\ sttLog' = sttLog \o <<Op("send_audio", "sender", 0, chunk),
                              Op("send", "sender", sttWs, chunk)>>
    /\ UNCHANGED <<sttConns, sttWs, sttReady>>

\* assemblyai_stt.py:134-142,52-71 send_audio(chunk) is called with no open
\* WebSocket: connect opens one and keeps it in self.ws
SttSendAudioConnect(chunk) ==
    /\ sttConns' = Append(sttConns, "open")
    /\ sttWs' = Len(sttConns) + 1
    /\ sttLog' = sttLog \o <<Op("send_audio", "sender", 0, chunk),
                              Op("connect", "sender", Len(sttConns) + 1, <<>>)>>
    /\ UNCHANGED sttReady

\* assemblyai_stt.py:146-148 send_audio sends the chunk after its wait
SttSend(chunk) ==
    /\ sttLog' = Append(sttLog, Op("send", "sender", sttWs, chunk))
    /\ UNCHANGED <<sttConns, sttWs, sttReady>>

\* assemblyai_stt.py:152-158 terminate: tell the vendor the audio is over
SttTerminate(by) ==
    /\ sttLog' = Append(sttLog, Op("terminate", by, IF SttOpen THEN sttWs ELSE 0, <<>>))
    /\ UNCHANGED <<sttConns, sttWs, sttReady>>

\* assemblyai_stt.py:160-166 close: close self.ws if it is open, forget it and
\* clear the ready flag
SttClose(by) ==
    /\ sttConns' = IF SttOpen THEN [sttConns EXCEPT ![sttWs] = "closed"] ELSE sttConns
    /\ sttWs' = 0
    /\ sttReady' = FALSE
    /\ sttLog' = Append(sttLog, Op("close", by, IF SttOpen THEN sttWs ELSE 0, <<>>))

SttInit ==
    /\ AgentIdle
    /\ MergeIdle
    /\ TtsIdle
    /\ DriverIdle
    /\ OnceIdle
    /\ TurnIdle
    /\ RunIdle
    /\ stage \in {"web", "pipeline"}
    /\ aIn \in AudioStreams
    /\ aPos = 0
    /\ sPc = "next"
    /\ sttReady = FALSE
    /\ current_audio = <<>>
    /\ vLog = <<>>
    /\ vDrops = 0
    /\ xEv = <<>>
    /\ xOut = <<>>
    /\ xErr = ""
    /\ xStop = ""
    /\ IF stage = "pipeline"
       THEN \* _voice_agent.py:196-197 buffer connects before it starts the sender
            /\ sttConns = <<"open">>
            /\ sttWs = 1
            /\ sttLog = <<Op("connect", "stage", 1, <<>>)>>
            /\ xPc = "recv"
            /\ xConn = 1
       ELSE \* main.py:105 the client of _stt_stream connects with the first audio
            /\ sttConns = <<>>
            /\ sttWs = 0
            /\ sttLog = <<>>
            /\ xPc = "wait"
            /\ xConn = 0

\* _voice_agent.py:205-206 pump_audio skips an empty chunk; main.py:118-119
\* send_audio passes every chunk on
Skips(chunk) == stage = "pipeline" /\ chunk = <<>>

\* a variant of SenderFinally that gives the vendor no sign of the audio's end
SenderFinallySilent == UNCHANGED <<sttConns, sttWs, sttReady, sttLog>>

\* main.py:120-122 send_audio's finally closes the client; _voice_agent.py:
\* 214-215 pump_audio's finally calls terminate
SenderFinally ==
    IF stage = "web" THEN SttClose("sender") ELSE SttTerminate("sender")

\* main.py:118-119, _voice_agent.py:204-209 and assemblyai_stt.py:134-150: the
\* sender takes the next chunk and calls stt.send_audio, which sends it on the
\* open WebSocket, or else connects and waits for the session to begin
SenderForward ==
    /\ sPc = "next"
    /\ aPos < Len(aIn)
    /\ aPos' = aPos + 1
    /\ LET chunk == aIn[aPos + 1]
       IN  IF Skips(chunk)
           THEN UNCHANGED <<sPc, sttConns, sttWs, sttReady, sttLog, current_audio>>
           ELSE /\ current_audio' = IF stage = "pipeline"
                                    THEN Append(current_audio, chunk) ELSE current_audio
                /\ IF SttOpen
                   THEN SttSendAudio(chunk) /\ UNCHANGED sPc
                   ELSE SttSendAudioConnect(chunk) /\ sPc' = "ready"
    /\ UNCHANGED <<stage, aIn, vLog, vDrops, xPc, xConn, xEv, xOut, xErr, xStop, notStt>>

\* assemblyai_stt.py:144-150 the session has begun: send the chunk if the
\* WebSocket is open, drop it otherwise
SenderReady ==
    /\ sPc = "ready"
    /\ sttReady
    /\ IF SttOpen
       THEN SttSend(aIn[aPos])
       ELSE UNCHANGED <<sttConns, sttWs, sttReady, sttLog>>
    /\ sPc' = "next"
    /\ UNCHANGED <<stage, aIn, aPos, current_audio, vLog, vDrops, xPc, xConn, xEv, xOut,
                   xErr, xStop, notStt>>

\* a variant of SenderTimeout in which the wait gives up silently: the chunk is
\* dropped and the sender goes on with the next one
SenderTimeoutDrops ==
    /\ sPc = "ready"
    /\ ~sttReady
    /\ sPc' = "next"
    /\ UNCHANGED <<stage, aIn, aPos, sttConns, sttWs, sttReady, sttLog, current_audio,
                   vLog, vDrops, xPc, xConn, xEv, xOut, xErr, xStop, notStt>>

\* assemblyai_stt.py:144 the session does not begin in time: wait_for raises
\* TimeoutError. pump_audio prints it (_voice_agent.py:212-213), send_audio
\* of main.py lets it through; both run their finally.
SenderTimeout ==
    /\ sPc = "ready"
    /\ ~sttReady
    /\ SenderFinally
    /\ sPc' = IF stage = "web" THEN "failed" ELSE "done"
    /\ UNCHANGED <<stage, aIn, aPos, current_audio, vLog, vDrops, xPc, xConn, xEv, xOut,
                   xErr, xStop, notStt>>

\* main.py:118-122, _voice_agent.py:204-215 the audio stream is exhausted: the
\* sender leaves its loop through the finally and ends
SenderExhausted ==
    /\ sPc = "next"
    /\ aPos = Len(aIn)
    /\ SenderFinally
    /\ sPc' = "done"
    /\ UNCHANGED <<stage, aIn, aPos, current_audio, vLog, vDrops, xPc, xConn, xEv, xOut,
                   xErr, xStop, notStt>>

\* the vendor closes WebSocket c
VendorDrop(c) ==
    /\ sttConns[c] = "open"
    /\ vDrops < MaxDrops
    /\ sttConns' = [sttConns EXCEPT ![c] = "closed"]
    /\ sttLog' = Append(sttLog, Op("drop", "vendor", c, <<>>))
    /\ vDrops' = vDrops + 1
    /\ UNCHANGED <<stage, aIn, aPos, sPc, sttWs, sttReady, current_audio, vLog,
                   xPc, xConn, xEv, xOut, xErr, xStop, notStt>>

\* a variant of EmitsFinal that lets every formatted transcript through
EmitsFinalAlways(x) == TRUE

\* assemblyai_stt.py:104 transcript and transcript.strip()
EmitsFinal(x) == ~IsBlank(x)

\* assemblyai_stt.py:98-106 a formatted turn with something in it is yielded
FinalEvents(m) ==
    IF m.type = "Turn" /\ m.turn_is_formatted /\ EmitsFinal(m.transcript)
    THEN <<STTOutputEvent(m.transcript)>> ELSE <<>>

\* receive_events of main.py:132 re-emits a partial result as an stt_chunk
\* event; receive_messages only logs it (assemblyai_stt.py:107-110)
PartialEvents(m) ==
    IF stage = "web" /\ m.type = "Turn" /\ ~m.turn_is_formatted
    THEN <<STTChunkEvent(m.transcript)>> ELSE <<>>

\* what the client's receiving loop yields for one message of the vendor
ReceiveYields(m) == FinalEvents(m) \o PartialEvents(m)

\* _voice_agent.py:221-230,267 buffer and transcribe pass a transcript on when
\* it is not empty and audio was buffered for the turn; main.py:132-133 passes
\* every event on
Passes(e) == stage = "pipeline" => (e.text # <<>> /\ current_audio # <<>>)

\* main.py:105,132 the client of _stt_stream has connected: its receive_events
\* reads that WebSocket
ReceiverAttach ==
    /\ xPc = "wait"
    /\ SttOpen
    /\ xConn' = sttWs
    /\ xPc' = "recv"
    /\ UNCHANGED <<stage, aIn, aPos, sPc, sttConns, sttWs, sttReady, sttLog, current_audio,
                   vLog, vDrops, xEv, xOut, xErr, xStop, notStt>>

\* main.py:122,132 the client was closed before receive_events had a WebSocket
\* to read: its event stream ends
ReceiverEnded ==
    /\ xPc = "wait"
    /\ ~SttOpen
    /\ \E k \in 1..Len(sttLog) : sttLog[k].op = "close"
    /\ xPc' = "finally"
    /\ UNCHANGED <<stage, aIn, aPos, sPc, sttConns, sttWs, sttReady, sttLog, current_audio,
                   vLog, vDrops, xConn, xEv, xOut, xErr, xStop, notStt>>

\* a variant of EndsLoop in which a payload that cannot be decoded ends the loop too
EndsLoopOnUndecodable(m) == m.type \in {"Termination", "undecodable"}

\* assemblyai_stt.py:112-118,126-127 only Termination breaks out of the loop; a
\* JSONDecodeError is caught inside the loop, printed, and the loop reads on
EndsLoop(m) == m.type = "Termination"

\* assemblyai_stt.py:84-127 and _voice_agent.py:220-230 the receiving loop reads
\* one message: Begin sets the ready flag, a turn may give an event to yield,
\* Termination ends the loop through the finally (close), the rest is ignored
ReceiverMessage(m) ==
    /\ xPc = "recv"
    /\ sttConns[xConn] = "open"
    /\ Len(vLog) < MaxVendor
    /\ vLog' = Append(vLog, m)
    /\ LET got == ReceiveYields(m)
       IN  /\ current_audio' = IF stage = "pipeline" /\ got # <<>> /\ got[1].text # <<>>
                                THEN <<>> ELSE current_audio
           /\ IF EndsLoop(m)
              THEN /\ SttClose("receiver")
                   /\ xPc' = "finally"
                   /\ UNCHANGED xEv
              ELSE /\ sttReady' = (sttReady \/ m.type = "Begin")
                   /\ UNCHANGED <<sttConns, sttWs, sttLog>>
                   /\ IF got # <<>> /\ Passes(got[1])
                      THEN xEv' = got[1] /\ xPc' = "yield"
                      ELSE UNCHANGED <<xEv, xPc>>
    /\ UNCHANGED <<stage, aIn, aPos, sPc, vDrops, xConn, xOut, xErr, xStop, notStt>>

\* assemblyai_stt.py:129-132 the WebSocket the loop reads is closed: the loop
\* ends through the finally, which closes whatever self.ws is by now
ReceiverClosed ==
    /\ xPc = "recv"
    /\ sttConns[xConn] = "closed"
    /\ SttClose("receiver")
    /\ xPc' = "finally"
    /\ UNCHANGED <<stage, aIn, aPos, sPc, current_audio, vLog, vDrops, xConn, xEv, xOut,
                   xErr, xStop, notStt>>

\* a variant of StageYield that keeps the partial transcripts to itself
StageYieldFinalsOnly ==
    /\ xPc = "yield"
    /\ xOut' = IF xEv.type = "stt_output" THEN Append(xOut, xEv) ELSE xOut
    /\ xPc' = "recv"
    /\ UNCHANGED <<stage, aIn, aPos, sPc, sttConns, sttWs, sttReady, sttLog, current_audio,
                   vLog, vDrops, xConn, xEv, xErr, xStop, notStt>>

\* main.py:133, _voice_agent.py:240-249,270 the stage yields the event and its
\* consumer asks for the next
StageYield ==
    /\ xPc = "yield"
    /\ xOut' = Append(xOut, xEv)
    /\ xPc' = "recv"
    /\ UNCHANGED <<stage, aIn, aPos, sPc, sttConns, sttWs, sttReady, sttLog, current_audio,
                   vLog, vDrops, xConn, xEv, xErr, xStop, notStt>>

\* the consumer closes the stage's generator where it is suspended, at its yield
ConsumerStop ==
    /\ xPc = "yield"
    /\ xPc' = "finally"
    /\ xStop' = "closed"
    /\ UNCHANGED <<stage, aIn, aPos, sPc, sttConns, sttWs, sttReady, sttLog, current_audio,
                   vLog, vDrops, xConn, xEv, xOut, xErr, notStt>>

\* the consumer's task is cancelled while the stage waits for the vendor: the
\* receiving loop leaves through its finally (assemblyai_stt.py:131-132)
ConsumerCancel ==
    /\ xPc \in {"wait", "recv"}
    /\ IF xPc = "recv"
       THEN SttClose("receiver")
       ELSE UNCHANGED <<sttConns, sttWs, sttReady, sttLog>>
    /\ xPc' = "finally"
    /\ xStop' = "cancelled"
    /\ UNCHANGED <<stage, aIn, aPos, sPc, current_audio, vLog, vDrops, xConn, xEv, xOut,
                   xErr, notStt>>

\* the sender task has ended, in whichever way
SenderFinished == sPc \in {"done", "failed", "cancelled"}

\* main.py:137, _voice_agent.py:254 the stage's finally cancels the sender task
StageCancelSender ==
    /\ xPc = "finally"
    /\ sPc' = IF SenderFinished THEN sPc ELSE "cancelling"
    /\ xPc' = "await"
    /\ UNCHANGED <<stage, aIn, aPos, sttConns, sttWs, sttReady, sttLog, current_audio,
                   vLog, vDrops, xConn, xEv, xOut, xErr, xStop, notStt>>

\* main.py:120-122, _voice_agent.py:210-215 the sender task gets the
\* CancelledError where it waits and leaves through its finally
SenderCancelled ==
    /\ sPc = "cancelling"
    /\ SenderFinally
    /\ sPc' = "cancelled"
    /\ UNCHANGED <<stage, aIn, aPos, current_audio, vLog, vDrops, xPc, xConn, xEv, xOut,
                   xErr, xStop, notStt>>

\* a variant of StageAwaitSender that does not wait for the sender task
StageAwaitSenderNot ==
    /\ xPc = "await"
    /\ xPc' = "close"
    /\ UNCHANGED <<stage, aIn, aPos, sPc, sttConns, sttWs, sttReady, sttLog, current_audio,
                   vLog, vDrops, xConn, xEv, xOut, xErr, xStop, notStt>>

\* main.py:136-138, _voice_agent.py:255-256 the stage awaits the sender task,
\* suppressing CancelledError only: the TimeoutError of a failed sender goes
\* to the consumer of _stt_stream, and line 140 is not reached
StageAwaitSender ==
    /\ xPc = "await"
    /\ SenderFinished
    /\ IF sPc = "failed"
       THEN xErr' = "TimeoutError" /\ xPc' = "error"
       ELSE xErr' = xErr /\ xPc' = "close"
    /\ UNCHANGED <<stage, aIn, aPos, sPc, sttConns, sttWs, sttReady, sttLog, current_audio,
                   vLog, vDrops, xConn, xEv, xOut, xStop, notStt>>

\* main.py:140, _voice_agent.py:257 the stage closes the client
StageClose ==
    /\ xPc = "close"
    /\ SttClose("stage")
    /\ xPc' = "done"
    /\ UNCHANGED <<stage, aIn, aPos, sPc, current_audio, vLog, vDrops, xConn, xEv, xOut,
                   xErr, xStop, notStt>>

SttNext ==
    \/ SenderForward
    \/ SenderReady
    \/ SenderTimeout
    \/ SenderExhausted
    \/ SenderCancelled
    \/ \E c \in 1..Len(sttConns) : VendorDrop(c)
    \/ ReceiverAttach
    \/ ReceiverEnded
    \/ \E m \in VendorMessages : ReceiverMessage(m)
    \/ ReceiverClosed
    \/ StageYield
    \/ ConsumerStop
    \/ ConsumerCancel
    \/ StageCancelSender
    \/ StageAwaitSender
    \/ StageClose

SpecStt == SttInit /\ [][SttNext]_vars

-----------------------------------------------------------------------------
(* The shutdown of the transcription stage                                  *)

\* the places of the log where op was made by who
OpsOf(who, ops) == {k \in 1..Len(sttLog) : sttLog[k].by = who /\ sttLog[k].op \in ops}

-----------------------------------------------------------------------------
(* The sender loop                                                          *)

\* the audio chunks sent to the vendor, in the order they were sent
SentChunks ==
    LET sends == SelectSeq(sttLog, LAMBDA e : e.op = "send")
    IN  [k \in 1..Len(sends) |-> sends[k].chunk]

\* the chunks of a stream that the sender does not skip
Kept(a) == SelectSeq(a, LAMBDA chunk : ~Skips(chunk))

\* the marks of the audio's end that the sender gave: close or terminate
EndMarks == OpsOf("sender", {"close", "terminate"})

\* s is t with some elements left out
IsSubSeq(s, t) ==
    \E f \in [1..Len(s) -> 1..Len(t)] :
        /\ \A i \in 1..Len(s) : t[f[i]] = s[i]
        /\ \A i, j \in 1..Len(s) : i < j => f[i] < f[j]

\* the one WebSocket of the run was open whenever the sender used it
Undisturbed ==
    /\ Len(sttConns) <= 1
    /\ \A k \in EndMarks : Len(sttConns) = 1 => sttLog[k].conn = 1

\* C14: the chunks sent to the vendor are chunks the sender has read, in the
\* order of the input, and, the connection permitting, all of those it does
\* not skip; the sender marks the end of the audio at most once, after its last
\* operation on the client, and it has done so exactly once when it has ended,
\* as it does when the input is exhausted.
C14_SenderInOrderThenEnd ==
    /\ IsSubSeq(SentChunks, Kept(SubSeq(aIn, 1, aPos)))
    /\ (sPc = "done" /\ aPos = Len(aIn) /\ Undisturbed) => SentChunks = Kept(aIn)
    /\ Cardinality(EndMarks) = (IF SenderFinished THEN 1 ELSE 0)
    /\ \A k \in EndMarks : \A j \in (k + 1)..Len(sttLog) : sttLog[j].by # "sender"

\* both chunks of the input were sent, in order, and then the end was marked
C14_Witness ==
    /\ sPc = "done"
    /\ SentChunks = <<<<1>>, <<2>>>>
    /\ \E k \in EndMarks : sttLog[k].conn # 0

-----------------------------------------------------------------------------
(* A connection that closes under the sender                                *)

\* the places of the log where an open WebSocket was closed, by the vendor or
\* by the receiving loop, before the sender had marked the end of the audio
ClosedUnderSender ==
    {k \in 1..Len(sttLog) :
        /\ sttLog[k].op \in {"close", "drop"}
        /\ sttLog[k].by \in {"vendor", "receiver"}
        /\ sttLog[k].conn # 0
        /\ \A j \in EndMarks : k < j}

\* C15: once the connection has closed under the running sender, the sender
\* sends no audio and opens no connection any more, and no error reaches the
\* stage's consumer.
C15_ClosedConnectionEndsSender ==
    \A k \in ClosedUnderSender :
        /\ \A j \in (k + 1)..Len(sttLog) :
              ~(sttLog[j].by = "sender" /\ sttLog[j].op \in {"connect", "send"})
        /\ xErr = ""

-----------------------------------------------------------------------------
(* The transcripts the stage re-emits                                       *)

RECURSIVE Reemitted(_)
\* the events that stand for a sequence of vendor messages: one stt_chunk for
\* each partial result, one stt_output for each final result that is not blank
Reemitted(log) ==
    IF log = <<>> THEN <<>>
    ELSE LET m == Head(log)
             e == IF m.type # "Turn" THEN <<>>
                  ELSE IF ~m.turn_is_formatted THEN <<STTChunkEvent(m.transcript)>>
                  ELSE IF IsBlank(m.transcript) THEN <<>>
                  ELSE <<STTOutputEvent(m.transcript)>>
         IN  e \o Reemitted(Tail(log))

-----------------------------------------------------------------------------
(* Empty input                                                              *)

\* C17: an audio frame of zero length is never passed to the STT client nor
\* sent to the vendor.
C17_EmptyFrameDropped ==
    \A k \in 1..Len(sttLog) :
        sttLog[k].op \in {"send_audio", "send"} => sttLog[k].chunk # <<>>

\* the final-transcript events the stage has yielded or is about to yield
FinalsOut ==
    LET out == IF xPc = "yield" THEN Append(xOut, xEv) ELSE xOut
    IN  SelectSeq(out, LAMBDA e : e.type = "stt_output")

\* the formatted turns read from the vendor whose transcript is not blank
SpokenFinals ==
    SelectSeq(vLog, LAMBDA m : m.type = "Turn" /\ m.turn_is_formatted /\ ~IsBlank(m.transcript))

\* C18: a final transcript whose text is empty or only whitespace is
\* suppressed: every final-transcript event of the stage, the only thing the
\* agent is invoked on, carries the non-blank text of a final turn, and there
\* are no more such events than non-blank final turns.
C18_BlankFinalSuppressed ==
    /\ \A k \in 1..Len(FinalsOut) : ~IsBlank(FinalsOut[k].text)
    /\ Len(FinalsOut) <= Len(SpokenFinals)
    /\ \A k \in 1..Len(FinalsOut) :
          \E j \in 1..Len(SpokenFinals) : FinalsOut[k].text = SpokenFinals[j].transcript

\* a blank final turn and a spoken one were read, and only the spoken one came
\* out
C18_Witness ==
    /\ vLog = <<Turn(Blank, TRUE), Turn(Hi, TRUE)>>
    /\ xOut = <<STTOutputEvent(Hi)>>

\* C19: an empty agent response produces no downstream events: the agent
\* stage emits no agent text chunk event whose text is empty.
C19_NoEmptyAgentChunk ==
    \A k \in 1..Len(agOut) : agOut[k].type = "agent_chunk" => agOut[k].text # NoText

-----------------------------------------------------------------------------
(* The agent before startup                                                 *)

\* the stage holds a final transcript and the agent is not built
TranscriptBeforeStartup ==
    /\ agPc = "passed"
    /\ agIn[agPos].type = "stt_output"
    /\ agent = "none"

\* C20: a final transcript that reaches the agent stage while the agent is not
\* initialized makes the stage raise: its next step, if the agent is still
\* not built, ends the generator with the error (or its consumer closes it),
\* without a call of the agent and without another event read or yielded;
\* no call is ever made while the agent is not built, and a stage that raised
\* does nothing more.
C20_NotReadyIsFatal ==
    /\ [][(TranscriptBeforeStartup /\ agent' = "none")
            => /\ agPc' \in {"passed", "error", "closed"}
               /\ UNCHANGED <<agPos, agOut, agCalls, agInflight>>]_vars
    /\ [][agPc = "error" => UNCHANGED <<agPc, agPos, agOut, agCalls, agInflight>>]_vars
    /\ [](agent = "none" => agCalls = <<>>)

\* the stage raised on a final transcript before startup, having passed the
\* transcript on and called nothing
C20_Witness ==
    /\ agPc = "error"
    /\ agent = "none"
    /\ agPos = 1
    /\ agIn[1].type = "stt_output"
    /\ agOut = <<agIn[1]>>
    /\ agCalls = <<>>

-----------------------------------------------------------------------------
(* Errors and the turns that follow                                         *)

\* the stage ended on the configuration error: it raised without ever having
\* called the agent
ConfigurationError == agPc = "error" /\ agCalls = <<>>

\* C21: a configuration error aborts only the current turn: once the agent
\* is ready, no final transcript of the same upstream is left behind by a stage
\* that ended on the configuration error.
C21_ConfigErrorAbortsOnlyTurn ==
    (ConfigurationError /\ agent = "ready")
        => \A k \in (agPos + 1)..Len(agIn) : agIn[k].type # "stt_output"

-----------------------------------------------------------------------------
(* voice_agent.py VoicePipeline.run, the standalone driver: one cycle of    *)
(* _transcribe_stream | _agent_stream | _tts_stream per sentinel.           *)

\* most turns the standalone driver starts
MaxTurns == 3

\* one stage call of a cycle and how it ended
Call(op, turn, result) == [op |-> op, turn |-> turn, result |-> result]

RunInit ==
    /\ AgentIdle
    /\ MergeIdle
    /\ TtsIdle
    /\ DriverIdle
    /\ SttIdle
    /\ OnceIdle
    /\ TurnIdle
    /\ runPc = "loop"
    /\ turn_number = 0
    /\ runLog = <<>>
    /\ runErr = ""

\* voice_agent.py:222-226,132-136 the loop starts a pipeline over one sentinel;
\* _transcribe_stream counts the turn and awaits transcribe_fn
RunListen ==
    /\ runPc = "loop"
    /\ turn_number < MaxTurns
    /\ turn_number' = turn_number + 1
    /\ runPc' = "transcribe"
    /\ UNCHANGED <<runLog, runErr, notRun>>

\* a variant of AfterTranscribe in which an STT error leaves the generator
AfterTranscribeRaises(result) ==
    CASE result = "ok" -> "agent"
      [] result = "failed" -> "handler"
      [] OTHER -> "loop"

\* voice_agent.py:135-147 an STT error and an empty transcript are skipped
\* (continue: the sentinel stream is exhausted and the cycle ends without
\* output); a transcript is yielded to _agent_stream
AfterTranscribe(result) == IF result = "ok" THEN "agent" ELSE "loop"

\* voice_agent.py:136 transcribe_fn returns a transcript, an empty one, or raises
RunTranscribed(result) ==
    /\ runPc = "transcribe"
    /\ runLog' = Append(runLog, Call("transcribe", turn_number, result))
    /\ runPc' = AfterTranscribe(result)
    /\ UNCHANGED <<turn_number, runErr, notRun>>

\* a variant of AfterStage in which the cycle does not wait for the next stage
AfterStageDetached(result, next) == IF result = "failed" THEN "handler" ELSE "loop"

\* a variant of AfterStage in which a stage's error only ends the cycle
AfterStageSkips(result, next) == IF result = "ok" THEN next ELSE "loop"

\* voice_agent.py:174-187,200,221-230 a stage's result goes to the next stage,
\* an empty response ends the cycle, and an exception of agent.astream or of
\* tts_fn leaves the generators and the while loop for the except clause of run
AfterStage(result, next) ==
    CASE result = "ok" -> next
      [] result = "failed" -> "handler"
      [] OTHER -> "loop"

\* voice_agent.py:174-187 the agent's stream gives a response text, an empty
\* one, or raises
RunAgent(result) ==
    /\ runPc = "agent"
    /\ runLog' = Append(runLog, Call("agent", turn_number, result))
    /\ runPc' = AfterStage(result, "tts")
    /\ UNCHANGED <<turn_number, runErr, notRun>>

\* voice_agent.py:200-216 tts_fn plays the response and returns its audio, or
\* raises
RunTts(result) ==
    /\ runPc = "tts"
    /\ runLog' = Append(runLog, Call("tts", turn_number, result))
    /\ runPc' = AfterStage(result, "output")
    /\ UNCHANGED <<turn_number, runErr, notRun>>

\* voice_agent.py:226-227 the cycle's output reaches run, which prints it; the
\* generators then find their inputs exhausted and the while loop goes round
RunOutput ==
    /\ runPc = "output"
    /\ runLog' = Append(runLog, Call("output", turn_number, "ok"))
    /\ runPc' = "loop"
    /\ UNCHANGED <<turn_number, runErr, notRun>>

\* the driver has bound its loop variable `output` at least once
OutputBound == \E k \in 1..Len(runLog) : runLog[k].op = "output"

\* voice_agent.py:230-232 the except clause, outside the while loop, prints the
\* error and the last output, which is unbound if no cycle ever gave one; run
\* ends either way
RunHandler ==
    /\ runPc = "handler"
    /\ runErr' = IF OutputBound THEN "" ELSE "UnboundLocalError"
    /\ runPc' = "stopped"
    /\ UNCHANGED <<turn_number, runLog, notRun>>

RunNext ==
    \/ RunListen
    \/ \E r \in {"ok", "empty", "failed"} : RunTranscribed(r)
    \/ \E r \in {"ok", "empty", "failed"} : RunAgent(r)
    \/ \E r \in {"ok", "failed"} : RunTts(r)
    \/ RunOutput
    \/ RunHandler

SpecRun == RunInit /\ [][RunNext]_vars

\* the turns in which some stage failed
FailedTurns == {runLog[k].turn : k \in {j \in 1..Len(runLog) : runLog[j].result = "failed"}}

\* the turns for which the driver got output audio
OutputTurns == {runLog[k].turn : k \in {j \in 1..Len(runLog) : runLog[j].op = "output"}}

\* C22: a turn that fails in any stage produces no output audio for that
\* turn, and the driver then listens for the next turn instead of stopping.
C22_FailedTurnListensAgain ==
    /\ FailedTurns \cap OutputTurns = {}
    /\ runPc \notin {"handler", "stopped"}

\* the vendor closed the WebSocket the receiving loop reads, before the client
\* had told it that the audio was over or had closed anything itself
UnexpectedDrop ==
    \E k \in 1..Len(sttLog) :
        /\ sttLog[k] = Op("drop", "vendor", xConn, <<>>)
        /\ \A j \in 1..(k - 1) : sttLog[j].op \notin {"terminate", "close"}

\* C23: when the collaborator's socket is closed unexpectedly, the stage's
\* consumer receives a connection error: the step in which the receiving loop
\* finds its WebSocket closed by the vendor leaves the stage with that error,
\* not with a stream that ends as if it had completed.
C23_UnexpectedCloseSurfaces ==
    [][(ReceiverClosed /\ UnexpectedDrop) => xErr' = "ConnectionError"]_vars

\* the events the stage has yielded or is about to yield
Emitted == IF xPc = "yield" THEN Append(xOut, xEv) ELSE xOut

IsSuffix(s, t) ==
    /\ Len(s) <= Len(t)
    /\ \A k \in 1..Len(s) : s[k] = t[Len(t) - Len(s) + k]

\* C24: an undecodable message of the vendor is skipped without ending the
\* stream: reading it leaves the receiving loop reading, with the connection
\* and the output as they were, and while the stage runs the events of every
\* well-formed message read after it are emitted.
C24_MalformedSkipped ==
    /\ [][(Len(vLog') = Len(vLog) + 1 /\ vLog'[Len(vLog')] = Undecodable)
            => /\ xPc' = "recv"
               /\ UNCHANGED <<sttConns, sttWs, sttLog, xOut, xErr>>]_vars
    /\ []((stage = "web" /\ xPc \in {"recv", "yield"})
            => \A k \in 1..Len(vLog) :
                 vLog[k] = Undecodable
                    => IsSuffix(Reemitted(SubSeq(vLog, k + 1, Len(vLog))), Emitted))

\* an undecodable message was read first, and the final transcript that
\* followed it came out
C24_Witness ==
    /\ stage = "web"
    /\ vLog = <<Undecodable, Turn(Hi, TRUE)>>
    /\ xOut = <<STTOutputEvent(Hi)>>

-----------------------------------------------------------------------------
(* Cancellation of the transcription stage                                  *)

\* the consumer stopped the stage and the stage has finished with it
CancelComplete == xStop # "" /\ xPc \in {"done", "error"}

\* C25: when the consumption of the stage's output is cancelled, the cancel
\* completes only after the sender task has finished and every connection the
\* stage opened is closed, and the consumer sees the stream end without an
\* error.
C25_CancelTearsDownSilently ==
    CancelComplete =>
        /\ SenderFinished
        /\ \A c \in 1..Len(sttConns) : sttConns[c] = "closed"
        /\ xPc = "done"
        /\ xErr = ""

-----------------------------------------------------------------------------
(* The handshake timeout                                                    *)

\* the entries that a step added to the log of the STT client
Logged == SubSeq(sttLog', Len(sttLog) + 1, Len(sttLog'))

\* C26: if the session's Begin does not arrive in time, the waiting send_audio
\* fails with the timeout error, which ends its caller's loop: the sender
\* leaves the wait without Begin only as ended by the error (or as cancelled),
\* the chunk is not sent and the sender does not go on to the next chunk; and
\* the wait cannot last: whenever the sender waits, the step that ends the
\* wait, by the Begin that has arrived or by the timer, can be taken.
C26_HandshakeTimeoutFails ==
    /\ [][(sPc = "ready" /\ ~sttReady /\ sPc' # "ready")
            => /\ sPc' \in {"failed", "done", "cancelling"}
               /\ sPc' = "failed" <=> (stage = "web" /\ sPc' # "cancelling")
               /\ aPos' = aPos
               /\ \A k \in 1..Len(Logged) : Logged[k].op # "send"]_vars
    /\ [](sPc = "ready" => ENABLED (SenderReady \/ SenderTimeout))

\* the sender of _stt_stream connected for its first chunk, the session did
\* not begin in time, and the task ended with the error, the chunk unsent
C26_Witness ==
    /\ stage = "web"
    /\ sPc = "failed"
    /\ aPos = 1
    /\ aIn[1] = <<1>>
    /\ \A k \in 1..Len(sttLog) : sttLog[k].op # "send"
    /\ \E k \in 1..Len(sttLog) : sttLog[k] = Op("send_audio", "sender", 0, <<1>>)

-----------------------------------------------------------------------------
(* Turns in the output of the synthesis stage                               *)

\* C27 as stated: in the synthesis stage's output all events of turn n come
\* before any event of turn n+1. An audio chunk belongs to a turn whose text
\* was sent at its agent_end, so no audio chunk comes after a final transcript
\* unless that transcript's agent_end lies between them.
C27_TurnsInOrder ==
    \A p \in 1..Len(ttsOut) : \A q \in 1..(p - 1) :
        (ttsOut[q].type = "stt_output" /\ ttsOut[p].type = "tts_chunk")
            => \E e \in (q + 1)..(p - 1) : ttsOut[e].type = "agent_end"

\* the passed-through events of the synthesis stage's output
PassedThrough == SelectSeq(ttsOut, LAMBDA e : e.type # "tts_chunk")

\* C27 as amended: the passed-through events of the synthesis stage's output
\* keep their upstream order, so their turns do not interleave, and every
\* audio chunk comes after the agent_end of a turn with text to speak;
\* where later events of the upstream fall among the audio is not fixed.
C27_TurnsInOrderButAudio ==
    /\ IsPrefix(PassedThrough, tIn)
    /\ \A p \in 1..Len(ttsOut) :
          ttsOut[p].type = "tts_chunk"
             => \E e \in 1..(p - 1) :
                   /\ ttsOut[e].type = "agent_end"
                   /\ \E k \in 1..e :
                         /\ ttsOut[k].type = "agent_chunk"
                         /\ ~IsBlank(ttsOut[k].text)

\* the audio of the first turn comes out after the final transcript of the second
C27_Witness ==
    /\ tIn = <<AgentChunkEvent(Ok), AgentEndEvent, STTOutputEvent(Hi)>>
    /\ Len(ttsOut) = 4
    /\ ttsOut[3] = STTOutputEvent(Hi)
    /\ ttsOut[4].type = "tts_chunk"

-----------------------------------------------------------------------------
(* The session key                                                          *)

-----------------------------------------------------------------------------
(* The turn coordinator of the standalone deployment (spec section 4.6).    *)
(* The drivers under src/ (VoicePipeline.run, VoicePipeline.voice_run) run   *)
(* their turns one after another: they start no capture during playback and *)
(* have no stop signal, so the coordinator is modelled from the spec.        *)

\* most capture-and-transcribe tasks the coordinator starts
MaxCaptures == 3

\* what a capture-and-transcribe task may give: something said, or nothing
Said == {Hi, Ok}
Captured == Said \cup {<<>>}

\* one thing the coordinator or one of its tasks did
Step(op, text) == [op |-> op, text |-> text]

CapturesStarted == Cardinality({k \in 1..Len(coLog) : coLog[k].op = "capture"})

TurnInit ==
    /\ AgentIdle
    /\ MergeIdle
    /\ TtsIdle
    /\ DriverIdle
    /\ SttIdle
    /\ OnceIdle
    /\ RunIdle
    /\ coState = "Listening"
    /\ capTask = "idle"
    /\ capText = <<>>
    /\ playTask = "idle"
    /\ stopSignal = FALSE
    /\ pending = <<>>
    /\ coLog = <<>>

\* Listening with nothing pending: a capture-and-transcribe task runs
CoListen ==
    /\ coState = "Listening"
    /\ pending = <<>>
    /\ capTask = "idle"
    /\ CapturesStarted < MaxCaptures
    /\ capTask' = "running"
    /\ coLog' = Append(coLog, Step("capture", <<>>))
    /\ UNCHANGED <<coState, capText, playTask, stopSignal, pending, notTurn>>

\* the agent is invoked synchronously on transcript t and Responding begins:
\* playback of the response and the capture for the next turn start together
Respond(t, log) ==
    /\ coState' = "Responding"
    /\ playTask' = "running"
    /\ capTask' = "running"
    /\ capText' = <<>>
    /\ stopSignal' = FALSE
    /\ pending' = <<>>
    /\ coLog' = log \o <<Step("agent", t), Step("play", <<>>), Step("capture", <<>>)>>

\* Listening: the capture task completes; with an empty transcript the
\* coordinator listens again, with a non-empty one it responds
CoCaptured(t) ==
    /\ coState = "Listening"
    /\ capTask = "running"
    /\ IF t = <<>>
       THEN /\ capTask' = "idle"
            /\ coLog' = Append(coLog, Step("captured", t))
            /\ UNCHANGED <<coState, capText, playTask, stopSignal, pending>>
       ELSE /\ CapturesStarted < MaxCaptures
            /\ Respond(t, Append(coLog, Step("captured", t)))
    /\ UNCHANGED notTurn

\* a fresh Listening reuses the transcript that is pending instead of capturing
CoReuse ==
    /\ coState = "Listening"
    /\ pending # <<>>
    /\ CapturesStarted < MaxCaptures
    /\ Respond(pending, coLog)
    /\ UNCHANGED notTurn

\* playback (a) reaches the end of the response's audio
CoPlaybackEnds ==
    /\ playTask = "running"
    /\ playTask' = "done"
    /\ coLog' = Append(coLog, Step("played", <<>>))
    /\ UNCHANGED <<coState, capTask, capText, stopSignal, pending, notTurn>>

\* playback (a) sees the stop signal and stops early: the audio is truncated
CoPlaybackStops ==
    /\ playTask = "running"
    /\ stopSignal
    /\ playTask' = "stopped"
    /\ coLog' = Append(coLog, Step("truncated", <<>>))
    /\ UNCHANGED <<coState, capTask, capText, stopSignal, pending, notTurn>>

\* a variant of Interrupts that barges in on a playback that has finished too
InterruptsAlways(t) == t # <<>>

\* a variant of Interrupts that never barges in
InterruptsNever(t) == FALSE

\* race resolution: (b) finished first, with a non-empty transcript
Interrupts(t) == playTask = "running" /\ t # <<>>

\* Responding: the capture for the next turn (b) completes with transcript t.
\* If it is first and t is not empty, playback is told to stop and the cycle
\* is Interrupted, the transcript carried forward.
CoNextCaptured(t) ==
    /\ coState = "Responding"
    /\ capTask = "running"
    /\ capTask' = "done"
    /\ capText' = t
    /\ IF Interrupts(t)
       THEN /\ stopSignal' = TRUE
            /\ coState' = "Interrupted"
            /\ pending' = t
            /\ coLog' = coLog \o <<Step("captured", t), Step("stop", t)>>
       ELSE /\ coLog' = Append(coLog, Step("captured", t))
            /\ UNCHANGED <<stopSignal, coState, pending>>
    /\ UNCHANGED <<playTask, notTurn>>

\* a variant of KeptForNextTurn that discards what was captured during playback
KeptNothing == <<>>

\* what a Completed cycle leaves for the next Listening: what (b) captured
KeptForNextTurn == capText

\* Responding: (a) has been waited for, then (b): the cycle is Completed, and
\* what (b) captured is pending
CoComplete ==
    /\ coState = "Responding"
    /\ playTask = "done"
    /\ capTask = "done"
    /\ coState' = "Completed"
    /\ pending' = KeptForNextTurn
    /\ UNCHANGED <<capTask, capText, playTask, stopSignal, coLog, notTurn>>

\* from both terminal substates a fresh Listening begins, once playback has ended
CoListenAgain ==
    /\ coState \in {"Interrupted", "Completed"}
    /\ playTask \in {"done", "stopped"}
    /\ coState' = "Listening"
    /\ capTask' = "idle"
    /\ playTask' = "idle"
    /\ UNCHANGED <<capText, stopSignal, pending, coLog, notTurn>>

TurnNext ==
    \/ CoListen
    \/ \E t \in Captured : CoCaptured(t)
    \/ CoReuse
    \/ CoPlaybackEnds
    \/ CoPlaybackStops
    \/ \E t \in Captured : CoNextCaptured(t)
    \/ CoComplete
    \/ CoListenAgain

SpecTurn == TurnInit /\ [][TurnNext]_vars

\* the places of the log after place i up to the next agent invocation
UntilNextAgent(i) ==
    {j \in (i + 1)..Len(coLog) : \A k \in (i + 1)..(j - 1) : coLog[k].op # "agent"}

SincePlay ==
    {j \in 1..Len(coLog) : \E p \in 1..j :
        coLog[p].op = "play" /\ \A k \in (p + 1)..Len(coLog) : coLog[k].op # "play"}

NonEmptyCaptures == {i \in 1..Len(coLog) : coLog[i].op = "captured" /\ coLog[i].text # <<>>}

C32_EmptyCaptureListensAgain ==
    /\ [](\A k \in 1..Len(runLog) :
            runLog[k].op = "agent"
               => \E j \in 1..(k - 1) : runLog[j] = Call("transcribe", runLog[k].turn, "ok"))
    /\ [](\A j \in 1..Len(runLog) :
            (runLog[j].op = "transcribe" /\ runLog[j].result # "ok")
               => \A k \in 1..Len(runLog) :
                     runLog[k].turn = runLog[j].turn => runLog[k].op = "transcribe")
    /\ [][(runPc = "transcribe" /\ Len(runLog') > Len(runLog)
             /\ runLog'[Len(runLog')].result # "ok")
            => runPc' = "loop"]_vars

\* an empty capture and a failed one were skipped, and the driver listened
\* again: the agent was invoked for the third turn's transcript only
C32_Witness ==
    /\ runPc = "tts"
    /\ runLog = <<Call("transcribe", 1, "empty"), Call("transcribe", 2, "failed"),
                  Call("transcribe", 3, "ok"), Call("agent", 3, "ok")>>

\* the turns whose response text the agent has given
AnsweredTurns == {runLog[k].turn : k \in {j \in 1..Len(runLog) : runLog[j] = Call("agent", runLog[j].turn, "ok")}}

\* the turns whose text-to-speech call has returned or raised
SpokenTurns == {runLog[k].turn : k \in {j \in 1..Len(runLog) : runLog[j].op = "tts"}}

\* C33: turns of the driver do not overlap: while the agent is invoked for a
\* turn, the text-to-speech call of every earlier answered turn has finished,
\* and in the log the speech of turn n stands before the agent call of any
\* later turn.
C33_TurnsDoNotOverlap ==
    /\ [](runPc = "agent"
            => \A n \in AnsweredTurns : n < turn_number => n \in SpokenTurns)
    /\ [](\A j, k \in 1..Len(runLog) :
            (runLog[j].op = "tts" /\ runLog[k].op = "agent"
               /\ runLog[j].turn < runLog[k].turn) => j < k)

\* the agent is invoked for the second turn after the first turn was spoken
C33_Witness ==
    /\ runPc = "agent"
    /\ turn_number = 2
    /\ runLog = <<Call("transcribe", 1, "ok"), Call("agent", 1, "ok"), Call("tts", 1, "ok"),
                  Call("output", 1, "ok"), Call("transcribe", 2, "ok")>>

-----------------------------------------------------------------------------
(* The synthesis stage with its scheduling: every task that can take a step *)
(* takes one, and the consumer keeps draining. The vendor and a consumer's   *)
(* decision to stop are not under this obligation.                           *)

SpecTtsFair ==
    /\ SpecTts
    /\ WF_vars(ProcessUpstreamRead)
    /\ WF_vars(ProcessUpstreamYield)
    /\ WF_vars(ProcessUpstreamAfter)
    /\ WF_vars(ProcessUpstreamEnd)
    /\ WF_vars(ReceiveEventsConnected)
    /\ WF_vars(ReceiveEventsMessage)
    /\ WF_vars(ReceiveEventsBlock)
    /\ WF_vars(ReceiveEventsTimeout)
    /\ WF_vars(ReceiveEventsYield)
    /\ WF_vars(\E c \in 1..Len(conns) : MessageHandlerClosed(c))
    /\ WF_vars(TtsYield)
    /\ WF_vars(TtsCancelUpstream)
    /\ WF_vars(TtsCancelAudio)
    /\ WF_vars(TtsMergeReturn)
    /\ WF_vars(TtsClose)

\* C34: once the stage's input stream has ended, the stage's output stream
\* eventually ends and the TTS connection is closed.
C34_StageEndsAfterInput ==
    (uPc = "done" /\ mProd[Upstream] = "done")
        ~> (MergeReturned /\ closeSignal /\ ~WsOpen)

\* C35: an end-of-stream marker only ends the reading of the connection whose
\* handler queued it: when receive_events takes a marker off the queue and
\* closes the open WebSocket, that WebSocket's handler is one that has ended
\* (and so queued the marker), never a new connection's handler still running.
C35_MarkerEndsOwnConnection ==
    [][\A c \in 1..Len(conns) :
          (conns[c] = "open" /\ conns'[c] = "closed"
             /\ rPc \in {"read", "get"} /\ rPc' = "wait")
            => hnd[c] # "running"]_vars

\* C36: in VoicePipeline.buffer every non-blank final transcript read from
\* the STT gives exactly one turn: while the stage reads or yields, it has
\* emitted as many turns as it has read such transcripts; and the buffer is
\* empty right after a turn's audio was taken.
C36_EveryFinalOneTurn ==
    /\ []((stage = "pipeline" /\ xPc \in {"recv", "yield"})
            => Len(FinalsOut) = Len(SpokenFinals))
    /\ [][(stage = "pipeline" /\ xPc = "recv" /\ xPc' = "yield")
            => current_audio' = <<>>]_vars

-----------------------------------------------------------------------------
(* assemblyai_stt.py: the one-shot functions that use the STT client         *)
(* directly, AssemblyAISTTTransform.transcribe_stream and                    *)
(* microphone_and_transcribe_once                                            *)

\* assemblyai_stt.py:54,141,146,154,162 self.ws and self.ws.close_code is None
OnceOpen == oWs # 0 /\ oConns[oWs] = "open"

\* assemblyai_stt.py:160-166 close(): close self.ws if it is open, forget it,
\* clear the ready flag
OnceClose ==
    /\ oConns' = IF OnceOpen THEN [oConns EXCEPT ![oWs] = "closed"] ELSE oConns
    /\ oWs' = 0
    /\ oReady' = FALSE

\* something that went over the wire, or happened to it
Wire(op, conn, chunk) == [op |-> op, conn |-> conn, chunk |-> chunk]

\* how many WebSockets the vendor has closed
OnceDrops == Cardinality({k \in 1..Len(oLog) : oLog[k].op = "drop"})

\* assemblyai_stt.py:98-106 the final transcripts receive_messages yields for
\* the messages of a log
FinalTexts(log) ==
    LET finals == SelectSeq(log, LAMBDA m : FinalEvents(m) # <<>>)
    IN  [k \in 1..Len(finals) |-> finals[k].transcript]

\* assemblyai_stt.py:182-187 transcribe_stream has connected and started the
\* task that collects what receive_messages yields
TranscribeInit ==
    /\ AgentIdle
    /\ MergeIdle
    /\ TtsIdle
    /\ DriverIdle
    /\ SttIdle
    /\ RunIdle
    /\ TurnIdle
    /\ fn = "transcribe_stream"
    /\ oPc = "send"
    /\ oAudio \in AudioStreams
    /\ oPos = 0
    /\ oConns = <<"open">>
    /\ oWs = 1
    /\ oReady = FALSE
    /\ oRead = <<>>
    /\ rcvPc = "running"
    /\ transcripts = <<>>
    /\ sendPc = "idle"
    /\ stop_event = FALSE
    /\ captured_chunks = <<>>
    /\ oLog = <<>>
    /\ oOut = <<>>
    /\ oErr = ""

\* assemblyai_stt.py:141-150 send_audio: send the chunk on the open WebSocket,
\* else connect again and wait for the session to begin
OnceSendAudio(chunk) ==
    IF OnceOpen
    THEN /\ oLog' = Append(oLog, Wire("send", oWs, chunk))
         /\ UNCHANGED <<oConns, oWs>>
    ELSE /\ oConns' = Append(oConns, "open")
         /\ oWs' = Len(oConns) + 1
         /\ UNCHANGED oLog

\* assemblyai_stt.py:190-191 the next chunk of the audio stream is sent
TsSendAudio ==
    /\ oPc = "send"
    /\ oPos < Len(oAudio)
    /\ oPos' = oPos + 1
    /\ oPc' = IF OnceOpen THEN "send" ELSE "ready"
    /\ OnceSendAudio(oAudio[oPos + 1])
    /\ UNCHANGED <<fn, oAudio, oReady, oRead, rcvPc, transcripts, sendPc, stop_event,
                   captured_chunks, oOut, oErr, notOnce>>

\* assemblyai_stt.py:144-147 the ready flag is set: the chunk is sent if the
\* WebSocket is open
TsSendReady ==
    /\ oPc = "ready"
    /\ oReady
    /\ oLog' = IF OnceOpen THEN Append(oLog, Wire("send", oWs, oAudio[oPos])) ELSE oLog
    /\ oPc' = "send"
    /\ UNCHANGED <<fn, oAudio, oPos, oConns, oWs, oReady, oRead, rcvPc, transcripts, sendPc,
                   stop_event, captured_chunks, oOut, oErr, notOnce>>

\* assemblyai_stt.py:144,203-204 no Begin within 10 s: TimeoutError leaves
\* transcribe_stream through its finally, which closes the client
TsSendTimeout ==
    /\ oPc = "ready"
    /\ ~oReady
    /\ OnceClose
    /\ oErr' = "TimeoutError"
    /\ oPc' = "done"
    /\ UNCHANGED <<fn, oAudio, oPos, oRead, rcvPc, transcripts, sendPc, stop_event,
                   captured_chunks, oLog, oOut, notOnce>>

\* assemblyai_stt.py:193-194,152-158 the audio is exhausted: terminate() tells
\* the vendor, if the WebSocket is open
TsTerminate ==
    /\ oPc = "send"
    /\ oPos = Len(oAudio)
    /\ oLog' = IF OnceOpen THEN Append(oLog, Wire("terminate", oWs, <<>>)) ELSE oLog
    /\ oPc' = "wait"
    /\ UNCHANGED <<fn, oAudio, oPos, oConns, oWs, oReady, oRead, rcvPc, transcripts, sendPc,
                   stop_event, captured_chunks, oOut, oErr, notOnce>>

\* assemblyai_stt.py:84-127,207-213 the collecting task reads one message of
\* the vendor on the WebSocket it was started on: Begin sets the ready flag, a
\* final transcript is appended to the list, Termination ends the loop through
\* the finally (close)
TsReceive(m) ==
    /\ rcvPc = "running"
    /\ oConns[1] = "open"
    /\ Len(oRead) < MaxVendor
    /\ oRead' = Append(oRead, m)
    /\ transcripts' = transcripts \o FinalTexts(<<m>>)
    /\ IF EndsLoop(m)
       THEN OnceClose /\ rcvPc' = "done"
       ELSE /\ oReady' = (oReady \/ m.type = "Begin")
            /\ UNCHANGED <<oConns, oWs, rcvPc>>
    /\ UNCHANGED <<fn, oPc, oAudio, oPos, sendPc, stop_event, captured_chunks, oLog, oOut,
                   oErr, notOnce>>

\* the vendor closes WebSocket c
OnceVendorDrop(c) ==
    /\ oConns[c] = "open"
    /\ OnceDrops < MaxDrops
    /\ oConns' = [oConns EXCEPT ![c] = "closed"]
    /\ oLog' = Append(oLog, Wire("drop", c, <<>>))
    /\ UNCHANGED <<fn, oPc, oAudio, oPos, oWs, oReady, oRead, rcvPc, transcripts, sendPc,
                   stop_event, captured_chunks, oOut, oErr, notOnce>>

\* assemblyai_stt.py:129-132 the task finds its WebSocket closed: the loop ends
\* through the finally, which closes whatever self.ws is by now
TsReceiveClosed ==
    /\ rcvPc = "running"
    /\ oConns[1] = "closed"
    /\ OnceClose
    /\ rcvPc' = "done"
    /\ UNCHANGED <<fn, oPc, oAudio, oPos, oRead, transcripts, sendPc, stop_event,
                   captured_chunks, oLog, oOut, oErr, notOnce>>

\* assemblyai_stt.py:198-203 wait_for has cancelled the collecting task and
\* raised TimeoutError: the list the task was building is gone with it, the
\* message is printed and the function ends through its finally
AfterWaitTimeout == "done"

\* assemblyai_stt.py:197-198 the collecting task has returned its list
TsGathered ==
    /\ oPc = "wait"
    /\ rcvPc = "done"
    /\ oPc' = "yield"
    /\ UNCHANGED <<fn, oAudio, oPos, oConns, oWs, oReady, oRead, rcvPc, transcripts, sendPc,
                   stop_event, captured_chunks, oLog, oOut, oErr, notOnce>>

\* assemblyai_stt.py:197-204 the collecting task has not ended within 5 s
TsWaitTimeout ==
    /\ oPc = "wait"
    /\ rcvPc = "running"
    /\ rcvPc' = "cancelled"
    /\ OnceClose
    /\ oPc' = AfterWaitTimeout
    /\ UNCHANGED <<fn, oAudio, oPos, oRead, transcripts, sendPc, stop_event,
                   captured_chunks, oLog, oOut, oErr, notOnce>>

\* assemblyai_stt.py:199-200 the next gathered transcript is yielded
TsYield ==
    /\ oPc = "yield"
    /\ Len(oOut) < Len(transcripts)
    /\ oOut' = Append(oOut, transcripts[Len(oOut) + 1])
    /\ UNCHANGED <<fn, oPc, oAudio, oPos, oConns, oWs, oReady, oRead, rcvPc, transcripts,
                   sendPc, stop_event, captured_chunks, oLog, oErr, notOnce>>

\* assemblyai_stt.py:199-204 all are yielded: the finally closes the client
TsEnd ==
    /\ oPc = "yield"
    /\ Len(oOut) = Len(transcripts)
    /\ OnceClose
    /\ oPc' = "done"
    /\ UNCHANGED <<fn, oAudio, oPos, oRead, rcvPc, transcripts, sendPc, stop_event,
                   captured_chunks, oLog, oOut, oErr, notOnce>>

\* assemblyai_stt.py:200,203-204 the consumer closes the generator at a yield:
\* the finally closes the client
TsConsumerStop ==
    /\ oPc = "yield"
    /\ oOut # <<>>
    /\ OnceClose
    /\ oPc' = "stopped"
    /\ UNCHANGED <<fn, oAudio, oPos, oRead, rcvPc, transcripts, sendPc, stop_event,
                   captured_chunks, oLog, oOut, oErr, notOnce>>

TranscribeNext ==
    \/ TsSendAudio
    \/ TsSendReady
    \/ TsSendTimeout
    \/ TsTerminate
    \/ \E m \in VendorMessages : TsReceive(m)
    \/ \E c \in 1..Len(oConns) : OnceVendorDrop(c)
    \/ TsReceiveClosed
    \/ TsGathered
    \/ TsWaitTimeout
    \/ TsYield
    \/ TsEnd
    \/ TsConsumerStop

SpecTranscribe == TranscribeInit /\ [][TranscribeNext]_vars

\* the terminate message has gone to the vendor
TerminateSent == \E k \in 1..Len(oLog) : oLog[k].op = "terminate"

\* C37: transcribe_stream yields, in the order received, every final
\* transcript that the STT sent: what it has yielded is a prefix of them, and
\* all of them once it has ended without an error; it yields only after the
\* audio is exhausted and the terminate message was sent; and on every exit
\* path the connection is closed.
C37_TranscribeStreamYieldsAll ==
    /\ IsPrefix(oOut, FinalTexts(oRead))
    /\ (oPc = "done" /\ oErr = "") => oOut = FinalTexts(oRead)
    /\ oOut # <<>> => (oPos = Len(oAudio) /\ TerminateSent)
    /\ oPc \in {"done", "stopped"} => \A c \in 1..Len(oConns) : oConns[c] = "closed"

\* the parts of C37 that do not depend on the vendor's answering in time: the
\* order, the audio being exhausted first, and the closing on every exit path
C37_OrderAndClose ==
    /\ IsPrefix(oOut, FinalTexts(oRead))
    /\ oOut # <<>> => (oPos = Len(oAudio) /\ oPc \in {"yield", "done", "stopped"})
    /\ oPc \in {"done", "stopped"} => \A c \in 1..Len(oConns) : oConns[c] = "closed"

-----------------------------------------------------------------------------
(* assemblyai_stt.py microphone_and_transcribe_once: one turn captured from *)
(* the microphone; capture_and_send runs as a task while the body listens   *)
(* for the first final transcript                                           *)

\* assemblyai_stt.py:284-310 the client has connected, capture_and_send is
\* started and the body begins to iterate receive_messages
MicInit ==
    /\ AgentIdle
    /\ MergeIdle
    /\ TtsIdle
    /\ DriverIdle
    /\ SttIdle
    /\ RunIdle
    /\ TurnIdle
    /\ fn = "microphone_and_transcribe_once"
    /\ oPc = "listen"
    /\ oAudio = <<>>
    /\ oPos = 0
    /\ oConns = <<"open">>
    /\ oWs = 1
    /\ oReady = FALSE
    /\ oRead = <<>>
    /\ rcvPc = "running"
    /\ transcripts = <<>>
    /\ sendPc = "running"
    /\ stop_event = FALSE
    /\ captured_chunks = <<>>
    /\ oLog = <<>>
    /\ oOut = <<>>
    /\ oErr = ""

\* assemblyai_stt.py:297-302 capture_and_send reads the next chunk from the
\* microphone, keeps it and calls send_audio. The microphone never runs dry:
\* the number of chunks is bounded only while they go out on an open WebSocket.
MicCapture ==
    /\ sendPc = "running"
    /\ ~stop_event
    /\ OnceOpen => oPos < MaxAudio
    /\ oPos' = oPos + 1
    /\ captured_chunks' = Append(captured_chunks, <<oPos + 1>>)
    /\ OnceSendAudio(<<oPos + 1>>)
    /\ sendPc' = IF OnceOpen THEN "running" ELSE "ready"
    /\ UNCHANGED <<fn, oPc, oAudio, oReady, oRead, rcvPc, transcripts, stop_event, oOut,
                   oErr, notOnce>>

\* assemblyai_stt.py:144-147 the ready flag is set: the chunk is sent if the
\* WebSocket is open
MicSendReady ==
    /\ sendPc = "ready"
    /\ oReady
    /\ oLog' = IF OnceOpen THEN Append(oLog, Wire("send", oWs, <<oPos>>)) ELSE oLog
    /\ sendPc' = "running"
    /\ UNCHANGED <<fn, oPc, oAudio, oPos, oConns, oWs, oReady, oRead, rcvPc, transcripts,
                   stop_event, captured_chunks, oOut, oErr, notOnce>>

\* a variant of MicSendTimeout in which the wait for the session has no timeout
MicSendWaitsOn ==
    /\ sendPc = "ready"
    /\ FALSE
    /\ UNCHANGED vars

\* assemblyai_stt.py:144,305-308 no Begin within 10 s: capture_and_send catches
\* the TimeoutError, prints it and ends
MicSendTimeout ==
    /\ sendPc = "ready"
    /\ ~oReady
    /\ sendPc' = "done"
    /\ UNCHANGED <<fn, oPc, oAudio, oPos, oConns, oWs, oReady, oRead, rcvPc, transcripts,
                   stop_event, captured_chunks, oLog, oOut, oErr, notOnce>>

\* assemblyai_stt.py:297,307-308 capture_and_send finds the stop event set
MicCaptureStops ==
    /\ sendPc = "running"
    /\ stop_event
    /\ sendPc' = "done"
    /\ UNCHANGED <<fn, oPc, oAudio, oPos, oConns, oWs, oReady, oRead, rcvPc, transcripts,
                   stop_event, captured_chunks, oLog, oOut, oErr, notOnce>>

\* assemblyai_stt.py:84-127,314-319 the body reads one message of the vendor:
\* the first final transcript is kept, the stop event set and the loop left
\* (the generator stays suspended); Termination ends the loop through the
\* generator's finally (close); Begin sets the ready flag
MicReceive(m) ==
    /\ oPc = "listen"
    /\ rcvPc = "running"
    /\ oConns[1] = "open"
    /\ Len(oRead) < MaxVendor
    /\ oRead' = Append(oRead, m)
    /\ IF FinalEvents(m) # <<>>
       THEN /\ transcripts' = Append(transcripts, m.transcript)
            /\ stop_event' = TRUE
            /\ rcvPc' = "left"
            /\ oPc' = "await"
            /\ UNCHANGED <<oConns, oWs, oReady>>
       ELSE IF EndsLoop(m)
       THEN /\ OnceClose
            /\ rcvPc' = "done"
            /\ oPc' = "await"
            /\ UNCHANGED <<transcripts, stop_event>>
       ELSE /\ oReady' = (oReady \/ m.type = "Begin")
            /\ UNCHANGED <<oConns, oWs, rcvPc, oPc, transcripts, stop_event>>
    /\ UNCHANGED <<fn, oAudio, oPos, sendPc, captured_chunks, oLog, oOut, oErr, notOnce>>

\* assemblyai_stt.py:129-132,314 the WebSocket the body reads is closed: the
\* loop ends through the generator's finally, which closes whatever self.ws is
MicReceiveClosed ==
    /\ oPc = "listen"
    /\ rcvPc = "running"
    /\ oConns[1] = "closed"
    /\ OnceClose
    /\ rcvPc' = "done"
    /\ oPc' = "await"
    /\ UNCHANGED <<fn, oAudio, oPos, oRead, transcripts, sendPc, stop_event,
                   captured_chunks, oLog, oOut, oErr, notOnce>>

\* assemblyai_stt.py:322-325 the send task has ended: terminate() tells the
\* vendor, if the WebSocket is open
MicTerminate ==
    /\ oPc = "await"
    /\ sendPc = "done"
    /\ oLog' = IF OnceOpen THEN Append(oLog, Wire("terminate", oWs, <<>>)) ELSE oLog
    /\ oPc' = "close"
    /\ UNCHANGED <<fn, oAudio, oPos, oConns, oWs, oReady, oRead, rcvPc, transcripts, sendPc,
                   stop_event, captured_chunks, oOut, oErr, notOnce>>

\* what microphone_and_transcribe_once returns
Turned(text, audio) == [transcript |-> text, audio |-> audio]

\* assemblyai_stt.py:326-337 close the client and return the transcript (empty
\* if there was none) with everything captured
MicReturn ==
    /\ oPc = "close"
    /\ OnceClose
    /\ oOut' = <<Turned(IF transcripts # <<>> THEN transcripts[1] ELSE <<>>, captured_chunks)>>
    /\ oPc' = "returned"
    /\ UNCHANGED <<fn, oAudio, oPos, oRead, rcvPc, transcripts, sendPc, stop_event,
                   captured_chunks, oLog, oErr, notOnce>>

MicNext ==
    \/ MicCapture
    \/ MicSendReady
    \/ MicSendTimeout
    \/ MicCaptureStops
    \/ \E m \in VendorMessages : MicReceive(m)
    \/ MicReceiveClosed
    \/ \E c \in 1..Len(oConns) : OnceVendorDrop(c)
    \/ MicTerminate
    \/ MicReturn

SpecMic == MicInit /\ [][MicNext]_vars

\* the tasks of the function keep being scheduled, and the microphone keeps
\* delivering; the vendor is under no obligation
SpecMicFair ==
    /\ SpecMic
    /\ WF_vars(MicCapture)
    /\ WF_vars(MicSendReady)
    /\ WF_vars(MicSendTimeout)
    /\ WF_vars(MicCaptureStops)
    /\ WF_vars(MicReceiveClosed)
    /\ WF_vars(MicTerminate)
    /\ WF_vars(MicReturn)

\* the chunks the microphone has delivered so far
Delivered == [k \in 1..oPos |-> <<k>>]

\* C38: microphone_and_transcribe_once returns once the first final
\* transcript has come or the STT stream has ended without one; when it has
\* returned, the capture task has stopped, and the result is the first final
\* transcript, or the empty transcript if there was none, with every chunk
\* the microphone delivered.
C38_OnceAlwaysReturns ==
    /\ (rcvPc \in {"left", "done"}) ~> (oPc = "returned")
    /\ [](oPc = "returned"
            => /\ sendPc = "done"
               /\ oOut = <<Turned(IF FinalTexts(oRead) # <<>> THEN FinalTexts(oRead)[1] ELSE <<>>,
                                  Delivered)>>)

\* the STT stream ended without a final transcript: the capture task ran into
\* the timeout of its reconnection, and the function returned an empty
\* transcript with the two chunks captured
C38_Witness ==
    /\ oPc = "returned"
    /\ oRead = <<Termination>>
    /\ sendPc = "done"
    /\ oOut = <<Turned(<<>>, <<<<1>>, <<2>>>>)>>

\* C39: once close() has been called, every send_text with a non-blank text
\* fails with an error and opens no connection; a send_text with a blank text
\* does nothing and opens no connection, before or after close().
C39_SendAfterCloseFails ==
    \A k \in 1..Len(dCalls) :
        /\ IsBlank(dCalls[k].text)
              => (dCalls[k].result = "noop" /\ ~dCalls[k].opened)
        /\ (~IsBlank(dCalls[k].text) /\ dCalls[k].during # "open")
              => (dCalls[k].result = "RuntimeError" /\ ~dCalls[k].opened)

\* the same once close() has returned
C39_SendAfterCloseReturnedFails ==
    \A k \in 1..Len(dCalls) :
        /\ IsBlank(dCalls[k].text)
              => (dCalls[k].result = "noop" /\ ~dCalls[k].opened)
        /\ (~IsBlank(dCalls[k].text) /\ dCalls[k].during = "closed")
              => (dCalls[k].result = "RuntimeError" /\ ~dCalls[k].opened)

\* the WebSockets of the client that are open
OpenSockets == {c \in 1..Len(conns) : conns[c] = "open"}

\* the message-handler tasks that run on a WebSocket that is still open
LiveHandlers == {c \in 1..Len(hnd) : hnd[c] = "running" /\ conns[c] = "open"}

\* C40: a HumeTTS never has more than one open WebSocket nor more than one
\* message handler running on an open WebSocket, and once close() has returned
\* and no send_text call is in flight, none of its handler tasks runs on an
\* open WebSocket.
C40_OneSocketOneHandler ==
    /\ Cardinality(OpenSockets) <= 1
    /\ Cardinality(LiveHandlers) <= 1
    /\ (dPc = "closed" /\ dConnecting = <<>>) => LiveHandlers = {}

=============================================================================
